---- MODULE Spec2Model ----
(***************************************************************************)
(* Model of the wormhole rendezvous control plane (pkg/server: the         *)
(* nameplate store, the allocator and the claim endpoint) and of the PAKE  *)
(* session handshake (pkg/crypto, pkg/session, cmd/wormhole).              *)
(*                                                                         *)
(* Store: every SQL statement is one atomic step of the database; a        *)
(* handler that issues several statements (Claim: SELECT then              *)
(* DELETE/UPDATE; AllocateNameplate: SELECT then INSERT) is several steps, *)
(* and other handlers run between them.  Only AllocateNameplate takes the  *)
(* ControlDB mutex.                                                        *)
(*                                                                         *)
(* Time is counted in ticks, TicksPerSec ticks to the second, so that the  *)
(* truncation of time.Time to Unix seconds is visible.                     *)
(***************************************************************************)
EXTENDS Integers, Sequences, FiniteSets, Bags, TLC

----------------------------------------------------------------------------
(* Bounds of the model *)

\* clock readings are 0..MaxTime (ticks)
MaxTime == 3
\* resolution of the clock: ticks per second
TicksPerSec == 2
\* the -nameplate-ttl flag, in seconds
TTL == 1
\* nameplates are sampled from 0..NumCodes-1 (the code has 10^digits of them)
NumCodes == 1
\* /v1/claim requests in progress at one time
NumClaimers == 2
\* /v1/allocate requests in progress at one time
NumAllocators == 1
\* rows inserted in one run
MaxRows == 2
\* failed claims counted on one row
MaxFailCount == 1
\* the allocator's retry limit (1000 in the code)
MaxTries == 2
\* codes (passphrases) an endpoint may hold: 1..NumPass
NumPass == 2
\* nameplates an endpoint may hold: 1..NumPlates
NumPlates == 2

\* bytes in one Chunk frame
ChunkSize == 1
\* frames a sender of its own making writes after its offer
MaxFrames == 3

\* the limiter: windows in ticks, limits, and the requests made in all
ReqWindow == 2
MaxReqs == 2
FailWindow == 3
MaxFails == 1
MaxCalls == 3

\* the host: chat streams that arrive, and codes it allocates in a row
NumStreams == 2
MaxCodes == 2

\* frames and headers written to the stream of the frame codec
MaxWrites == 2

\* incoming transfers offered during one chat
MaxPrompts == 2

\* lines the user types during one chat
MaxLines == 2

\* lines the peer writes to the chat stream
MaxPeerLines == 2

\* capacity of promptCh
PromptCap == 4

Codes == 0 .. (NumCodes - 1)

\* ClientIP of a request: /v1/allocate comes from the host, /v1/claim from
\* another address
AllocIP == "host"
ClaimIP == "peer"

\* side strings of a claim request, as ASCII codes:
\* "host", "HOST", "a", "connect", "B", "x"
SideInputs ==
  { <<104, 111, 115, 116>>, <<72, 79, 83, 84>>, <<97>>,
    <<99, 111, 110, 110, 101, 99, 116>>, <<66>>, <<120>> }

----------------------------------------------------------------------------
(* State *)

VARIABLES
  clock,   \* the wall clock, in ticks
  db,      \* the nameplates table: nameplate -> row, for the rows present
  rowids,  \* number of rows inserted so far (names each inserted row)
  waiting, \* /v1/allocate requests waiting for ControlDB.mu: their time.Now()
  holder,  \* the /v1/allocate request holding ControlDB.mu
  claims,  \* /v1/claim requests between their Load and their statement
  resp,    \* what the handler step just taken loaded, wrote and returned
  hist,    \* per inserted row: what was issued and what happened to it
  pk,      \* the PAKE handshake on one chat stream: both endpoints, both directions
  ss,      \* the session handshake of runAccepted on both ends of one chat stream
  xf,      \* one file transfer: the sender, the receiver and the transfer stream
  lim,     \* the IPLimiter of the control API and the requests it has answered
  hs,      \* the host's one-shot chat stream handler for one allocated code
  fc,      \* the frame codec: one byte stream, its writer and its reader
  ch       \* one end of a chat session of runAccepted, from the confirm prompt on

vars == <<clock, db, rowids, waiting, holder, claims, resp, hist, pk, ss, xf, lim, hs, fc, ch>>

\* the variables of the client-side session, the transfer, the rate limiter,
\* the host's stream handler, the frame codec and the chat
auxVars == <<ss, xf, lim, hs, fc, ch>>

\* the variables of the control plane
storeVars == <<clock, db, rowids, waiting, holder, claims, resp, hist>>

----------------------------------------------------------------------------
(* Pure functions *)

\* now.UTC().Unix(): whole seconds of a clock reading
Unix(t) == t \div TicksPerSec

\* the absolute expiry of a row, as a time.Time (in ticks)
ExpiresAt(r) == (r.CreatedAt + r.TTLSeconds) * TicksPerSec

\* Expired with the instant of expiry itself counted as expired
ExpiredGE(r, at) == at >= ExpiresAt(r)

\* NameplateRow.Expired
Expired(r, at) == at > ExpiresAt(r)

\* toLower: ASCII lower-casing, byte by byte
toLower(s) == [i \in 1 .. Len(s) |-> IF s[i] >= 65 /\ s[i] <= 90 THEN s[i] + 32 ELSE s[i]]

\* the switch on side in Claim: the bit of the side, 0 when not recognised
SideBit(side) ==
  LET s == toLower(side)
  IN  IF s = <<104, 111, 115, 116>> \/ s = <<97>> THEN 1
      ELSE IF s = <<99, 111, 110, 110, 101, 99, 116>> \/ s = <<98>> THEN 2
      ELSE 0

HasBit(mask, bit) == (mask \div bit) % 2 = 1

\* r.ClaimedMask | bit, for bit in {1, 2} and a mask in 0..3
MaskOr(mask, bit) == IF HasBit(mask, bit) THEN mask ELSE mask + bit

NilRow ==
  [CreatedAt |-> 0, TTLSeconds |-> 0, ClaimedMask |-> 0, Consumed |-> 0,
   FailCount |-> 0, LastIP |-> AllocIP, rowid |-> 0]

\* the row InsertNew writes
NewRow(ttl, now, ip, id) ==
  [CreatedAt |-> Unix(now), TTLSeconds |-> ttl, ClaimedMask |-> 0, Consumed |-> 0,
   FailCount |-> 0, LastIP |-> ip, rowid |-> id]

\* the path Claim takes after its Load, from what it loaded
ClaimBranch(found, r, bit, now) ==
  IF ~found THEN "missing"
  ELSE IF Expired(r, now) THEN "delete"
  ELSE IF r.Consumed # 0 THEN "consumed"
  ELSE IF bit = 0 THEN "incr"
  ELSE IF MaskOr(r.ClaimedMask, bit) = r.ClaimedMask THEN "incr"
  ELSE "update"

\* the status Claim returns after its UPDATE
ClaimStatus(newMask) == IF newMask = 3 THEN "paired" ELSE "waiting"

\* AllocateNameplate: the expires_at of the allocate response
AllocExpiresAt(now, ttl) == now + ttl * TicksPerSec

\* HandleClaim: the expires_at of the response (row is nil or the loaded row)
ResponseExp(hasRow, r, t) == IF hasRow THEN ExpiresAt(r) ELSE t

\* the UPDATE of Consume, on one row
ConsumeRow(r) == [r EXCEPT !.Consumed = 1]

\* FailAndConsume without the CASE WHEN consumed=0 guard
FailAndConsumeRowAlways(r) ==
  [r EXCEPT !.FailCount = r.FailCount + 1, !.Consumed = 1]

\* the UPDATE of FailAndConsume, on one row
FailAndConsumeRow(r) ==
  [r EXCEPT !.FailCount = r.FailCount + (IF r.Consumed = 0 THEN 1 ELSE 0),
            !.Consumed = 1]

\* the WHERE clause of CleanupExpired
CleanupMatches(r, now) == (r.CreatedAt + r.TTLSeconds) < Unix(now) \/ r.Consumed = 1

\* the table without the row of nameplate c
Without(t, c) == [x \in (DOMAIN t) \ {c} |-> t[x]]

----------------------------------------------------------------------------
(* PAKE: pkg/crypto and the frames of pkg/session.  Byte strings are terms: *)
(* an HKDF or HMAC output is the tuple of its inputs, and a SPAKE2 message  *)
(* or key is the record of what the group arithmetic of the library makes   *)
(* it depend on.                                                            *)

FramePakeMsg == 16
FramePakeConfirm == 17
FramePakeAbort == 31

ProtoChat == "/wormhole/1.0.0/chat"
ProtoXfer == "/wormhole/1.0.0/xfer"

\* the two peer IDs; their order as strings is their order as numbers
PeerIDs == {1, 2}

\* BuildTranscript without the sort of the peer IDs
BuildTranscriptUnsorted(nameplate, proto, a, b) ==
  <<"wormhole-pake-v1", nameplate, proto, a, b>>

\* BuildTranscript: the two peer IDs in sorted order
BuildTranscript(nameplate, proto, a, b) ==
  LET ids == IF a > b THEN <<b, a>> ELSE <<a, b>>
  IN  <<"wormhole-pake-v1", nameplate, proto, ids[1], ids[2]>>

\* HkdfBytes: HKDF-SHA256 of ikm with info = label | transcript
HkdfBytes(ikm, label, transcript) == <<"hkdf", ikm, label, transcript>>

\* SASFromKey: the five emoji are a function of HkdfBytes(K, "sas", transcript)
SASFromKey(K, transcript) == <<"sas", HkdfBytes(K, "sas", transcript)>>

\* the seed of the transfer hash, main.go: HkdfBytes(K, "xfer-xxh3-seed", ...)
XferSeed(K, nameplate, local, remote) ==
  <<"u64", HkdfBytes(K, "xfer-xxh3-seed", BuildTranscript(nameplate, ProtoXfer, local, remote))>>

\* NewPAKEState: side A is the initiator; identity A is the initiator's peer
\* ID and identity B the responder's; each state draws its own scalar
NewPAKEState(roleA, passphrase, nameplate, proto, local, remote) ==
  [roleA |-> roleA, pw |-> passphrase,
   idA |-> IF roleA THEN local ELSE remote,
   idB |-> IF roleA THEN remote ELSE local,
   scalar |-> IF roleA THEN "x" ELSE "y",
   transcript |-> BuildTranscript(nameplate, proto, local, remote)]

NoMsg == [side |-> "", scalar |-> "", pw |-> 0]

\* PAKEState.Start: the element of the state's scalar blinded by the password
Start(p) == [side |-> IF p.roleA THEN "A" ELSE "B", scalar |-> p.scalar, pw |-> p.pw]

\* PAKEState.Finish fails on a message that is not of the other side
FinishFails(p, peerMsg) == peerMsg.side # (IF p.roleA THEN "B" ELSE "A")

\* PAKEState.Finish: the key hashes the password, the identities, both
\* messages and the group element left after unblinding the peer's message
\* with the own password and multiplying by the own scalar: the same element
\* on both sides exactly when the passwords are equal
Finish(p, peerMsg) ==
  LET my == Start(p)
      msgA == IF p.roleA THEN my ELSE peerMsg
      msgB == IF p.roleA THEN peerMsg ELSE my
  IN  [pw |-> p.pw, idA |-> p.idA, idB |-> p.idB, msgA |-> msgA, msgB |-> msgB,
       shared |-> IF peerMsg.pw = p.pw
                  THEN <<{p.scalar, peerMsg.scalar}, "", 0, 0>>
                  ELSE <<{p.scalar, peerMsg.scalar}, my.side, p.pw, peerMsg.pw>>]

NoKey ==
  [pw |-> 0, idA |-> 0, idB |-> 0, msgA |-> NoMsg, msgB |-> NoMsg,
   shared |-> <<{}, "", 0, 0>>]

\* PAKEState.ComputeConfirmTag: HMAC keyed by HkdfBytes(K, "confirm", transcript)
\* over side | transcript
ComputeConfirmTag(p, K, side) ==
  <<"hmac", HkdfBytes(K, "confirm", p.transcript), side, p.transcript>>

NoTag == <<"hmac", HkdfBytes(NoKey, "", << >>), "", << >>>>

\* VerifyConfirmTag accepting any tag
VerifyConfirmTagAny(p, K, side, tag) == TRUE

\* PAKEState.VerifyConfirmTag
VerifyConfirmTag(p, K, side, tag) == ComputeConfirmTag(p, K, side) = tag

\* a frame: its type and its payload (a SPAKE2 message, a tag, or nothing)
Frame(typ, msg, tag) == [typ |-> typ, msg |-> msg, tag |-> tag]

\* an endpoint of the handshake: where its run is (pc), its arguments, the key
\* it derived, whether the tag it accepted was the peer's tag for that key,
\* the error its run returned, whether it wrote PakeAbort, and whether it has
\* closed the stream
NoEndpoint ==
  [pc |-> "idle", pass |-> 0, nameplate |-> 0, local |-> 0, remote |-> 0,
   hasK |-> FALSE, K |-> NoKey, verified |-> FALSE, err |-> "", sentAbort |-> FALSE,
   closed |-> FALSE]

\* the two endpoints, the frames in flight to each, and the frames written so
\* far: by whom and of which type
PakeIdle ==
  [ini |-> NoEndpoint, rsp |-> NoEndpoint, toRsp |-> << >>, toIni |-> << >>,
   sent |-> << >>]

----------------------------------------------------------------------------
(* The session handshake of runAccepted (cmd/wormhole) *)

\* the lines of the text control layer
ChatHello == "##HELLO"
ChatAccept == "##ACCEPT"
ChatReject == "##REJECT"

NoInput == [timedOut |-> FALSE, line |-> << >>]

\* the bytes of the initiator's PakeMsg frame, as one item of the stream
PakeFrameBytes == <<"framePakeMsg">>

\* one end of the chat stream: where its runAccepted is (pc), whether its
\* runPAKEAndConfirm has read its first frame and whether it returned a key,
\* what its user did at the confirmation prompt, if it was prompted, the
\* ##ACCEPT and ##REJECT lines it has written, whether it has read ##ACCEPT
\* from the peer, the handshakeSuccess flag, the reports it has issued to the
\* control API, and whether it has closed the stream
NoSide ==
  [pc |-> "idle", pakeRead |-> FALSE, pakeOk |-> FALSE, prompted |-> FALSE,
   typed |-> NoInput, said |-> << >>, gotAccept |-> FALSE, handshakeSuccess |-> FALSE,
   consume |-> 0, fail |-> 0, closed |-> FALSE]

\* hostBuf is what the host's bufio.Reader has read from the stream and not
\* yet handed out
SessIdle ==
  [verify |-> TRUE, host |-> NoSide, conn |-> NoSide, toHost |-> << >>, toConn |-> << >>,
   hostBuf |-> << >>]

\* an incoming transfer of the chat: the state of its promptReq ("none",
\* "waiting", "timedout", "answered"), the buffer of its resp channel, and
\* where its handleIncomingXfer goroutine is
NoPrompt == [st |-> "none", resp |-> << >>, xfer |-> "none"]

\* one end of a chat session: the position of runAccepted (main), of the
\* receive loop (recv) and of the input loop (inp); the token (ctx) and
\* whether the goroutine that watches it has run; the halves of the chat
\* stream closed on this end; the lines of the peer in flight, whether the
\* peer has closed, whether the connection is up; the sync.Once, reasonCh,
\* done, and the reasons runAccepted has taken; promptCh and the incoming
\* transfers; what became of each line the user typed; the report of the
\* failure to the control API; whether the process has exited
ChatIdle ==
  [main |-> "idle", recv |-> "idle", inp |-> "idle",
   ctx |-> FALSE, ctxClosed |-> FALSE, sRd |-> FALSE, sWr |-> FALSE,
   peer |-> << >>, peerLines |-> 0, peerClosed |-> FALSE, conn |-> TRUE,
   handshakeSuccess |-> FALSE, fail |-> "none", uiClosed |-> FALSE,
   once |-> FALSE, reasonCh |-> << >>, done |-> FALSE, delivered |-> << >>,
   promptCh |-> << >>, pr |-> [id \in 1 .. MaxPrompts |-> NoPrompt],
   typed |-> << >>, exited |-> FALSE]

\* a string of a FileHeader as the receiver reads it: its text in lower case
\* without surrounding blanks, and whether it was sent in upper case or padded
Str(text) == [text |-> text, upper |-> FALSE, padded |-> FALSE]

\* a file name: absolute or not, and its segments
NoName == [abs |-> FALSE, segs |-> << >>]

\* seeded XXH3-128 of a byte string, as lower-case hex: no collisions
XXH3(seed, bytes) == Str(<<seed, bytes>>)

\* the empty hash string
NoHash == Str(<< >>)

\* a frame of the transfer stream
Fr(typ) ==
  [typ |-> typ, name |-> NoName, size |-> 0, algo |-> Str(""), hash |-> NoHash,
   data |-> << >>]

\* sendXfer: who writes the sender's end (sendXfer, or a peer of its own
\* making), where its run is, the kind and root of what it sends, the files
\* with the content that hashFile hashed, the file and attempt it is at, the
\* failedFiles list, the error it returned, and what it has done so far: the
\* FileHeaders written, per file the attempts sent, the Chunk frames written,
\* the FileNacks read and the sleeps between attempts, and whether XferDone
\* was written
NoSender ==
  [mode |-> "idle", pc |-> "idle", kind |-> "file", root |-> << >>, files |-> << >>,
   idx |-> 0, attempt |-> 0, failedFiles |-> << >>, err |-> "", accepted |-> FALSE,
   hdrs |-> 0, readErrs |-> 0, log |-> << >>, xferDone |-> FALSE, budget |-> 0, closed |-> FALSE]

\* handleIncomingXfer: where its run is, what its user did at the prompt, the
\* open file and its path, the expected hash and algorithm, the bytes hashed
\* since the last FileHeader with the size that header announced, the files
\* acknowledged and their paths in the order of the FileAcks, and whether it
\* sent Reject or Error
NoReceiver ==
  [pc |-> "idle", prompted |-> FALSE, typed |-> NoInput, fw |-> FALSE,
   dstPath |-> << >>, expectHash |-> NoHash, algo |-> Str(""), hasher |-> << >>,
   hdrSize |-> 0, acks |-> {}, ackLog |-> << >>, sentReject |-> FALSE,
   sentError |-> FALSE, closed |-> FALSE]

\* fs maps the paths of the receiver's files to their content; touched holds
\* the paths it created, truncated or removed
XferIdle ==
  [seed |-> 0, snd |-> NoSender, rcv |-> NoReceiver, toR |-> << >>, toS |-> << >>,
   fs |-> << >>, touched |-> {}]

\* the client addresses
LimIPs == {"203.0.113.9", "198.51.100.7"}

\* what an endpoint handler made of the request it was given: the endpoint,
\* the body, the client address, the status and kind of the answer it wrote
\* itself (status 0 while the store has the request), and the failure window
\* of the address before and after
NoHttp ==
  [endpoint |-> "", body |-> "", ip |-> "", now |-> 0, status |-> 0, plain |-> FALSE,
   before |-> << >>, after |-> << >>]

\* the IPLimiter (an address without timestamps has the empty list), the
\* requests that sampled time.Now() and wait for the limiter's mutex, the
\* admitted requests whose endpoint handler runs, and what was answered
LimIdle ==
  [reqs |-> [ip \in LimIPs |-> << >>], fails |-> [ip \in LimIPs |-> << >>],
   calls |-> EmptyBag, running |-> EmptyBag, made |-> 0, log |-> << >>,
   http |-> NoHttp]

\* a chat stream towards the host: not yet there ("new"), in a call of the
\* stream handler installed for a code ("dispatched", with that code), handed
\* to the inbound channel of a code ("accepted"), or reset; forCode is the
\* code the host was waiting on when the stream arrived
NoStream == [st |-> "new", closure |-> 0, forCode |-> 0]

\* the host loop of main: the code it is at, where it is, the code whose
\* handler is installed for the chat protocol (0: none), which acceptOnce are
\* done, the stream in the inbound channel of each code (0: none), the
\* stream handed to runAccepted, and the streams in the order they were settled
HostIdle ==
  [code |-> 0, pc |-> "idle", handler |-> 0, once |-> [e \in 1 .. MaxCodes |-> FALSE],
   inbound |-> [e \in 1 .. MaxCodes |-> 0], handed |-> 0,
   streams |-> [i \in 1 .. NumStreams |-> NoStream], order |-> << >>]

\* ---- the frame codec ----
\* A byte stream is a sequence of runs: n bytes of value b.  A payload of
\* 2^29 bytes is one run.
Run(n, b) == [n |-> n, b |-> b]

\* a short byte string, each byte a run of its own
Bytes(seq) == [i \in 1 .. Len(seq) |-> Run(1, seq[i])]

\* the largest value of int32, and of the arithmetic of the model
MaxInt31 == 2147483647

\* 512*1024*1024
Limit29 == 536870912

\* no frame, and the result of no read
NoFrame == [raw |-> FALSE, typ |-> 0 - 1, payload |-> << >>]
NoRead ==
  [kind |-> "none", err |-> "", typ |-> 0, payload |-> << >>, alloc |-> FALSE,
   n |-> << >>, before |-> << >>, hdrRest |-> << >>, after |-> << >>,
   expect |-> NoFrame]

\* the codec in use (fmt), the bytes on the stream (wire), the frames and
\* headers written and not yet read (sent), whether the reader is at a frame
\* boundary of the writer (synced), the number of writes (made), whether the
\* reader gave up (closed), and the last read (out)
FrameIdle ==
  [fmt |-> "none", wire |-> << >>, sent |-> << >>, synced |-> TRUE, made |-> 0,
   closed |-> FALSE, out |-> NoRead]

----------------------------------------------------------------------------
(* Initial state: an empty table, no request in progress *)

NoHolder == [pc |-> "none", now |-> 0, tries |-> 0, code |-> 0]

\* the record of a handler step: the endpoint (kind), whether the handler
\* returned (done) and then its response (st, exp), the time.Now() it read
\* (now), what Claim loaded (r) and the path it took (op), and the row of the
\* nameplate before (pre) and after (post) the step
NoResp ==
  [kind |-> "none", done |-> FALSE, st |-> "", exp |-> 0, now |-> 0, code |-> 0, bit |-> 0,
   found |-> FALSE, r |-> NilRow, op |-> "", newMask |-> 0, hasRow |-> FALSE,
   hadPre |-> FALSE, pre |-> NilRow, hasPost |-> FALSE, post |-> NilRow]

Init ==
  /\ clock = 0
  /\ db = << >>
  /\ rowids = 0
  /\ waiting = EmptyBag
  /\ holder = NoHolder
  /\ claims = EmptyBag
  /\ resp = NoResp
  /\ hist = << >>
  /\ pk = PakeIdle
  /\ ss = SessIdle
  /\ xf = XferIdle
  /\ lim = LimIdle
  /\ fc = FrameIdle
  /\ ch = ChatIdle
  /\ hs = HostIdle

----------------------------------------------------------------------------
(* Actions *)

RowOf(t, c) == IF c \in DOMAIN t THEN t[c] ELSE NilRow

\* the history after a step to table t2: a row that became consumed is
\* marked, and viaFail counts the steps of /v1/fail that raised its fail_count
Recorded(t2, viaFail) ==
  [id \in DOMAIN hist |->
     LET cs == {c \in DOMAIN t2 : t2[c].rowid = id}
     IN  IF cs = {} THEN hist[id]
         ELSE LET c == CHOOSE x \in cs : TRUE
              IN  [hist[id] EXCEPT
                     !.consumed = hist[id].consumed \/ t2[c].Consumed # 0,
                     !.failIncs = hist[id].failIncs +
                        (IF viaFail /\ c \in DOMAIN db /\ db[c].rowid = id
                         THEN t2[c].FailCount - db[c].FailCount ELSE 0)]]

\* the record of a step lasts until the next step
Respond ==
  /\ resp # NoResp
  /\ resp' = NoResp
  /\ UNCHANGED <<clock, db, rowids, waiting, holder, claims, hist, pk, auxVars>>

\* the wall clock advances
Tick ==
  /\ resp = NoResp
  /\ clock < MaxTime
  /\ clock' = clock + 1
  /\ UNCHANGED <<db, rowids, waiting, holder, claims, resp, hist, pk, auxVars>>

InFlightAllocs == BagCardinality(waiting) + (IF holder.pc = "none" THEN 0 ELSE 1)

\* HandleAllocate reads time.Now() and calls AllocateNameplate, which then
\* waits for db.Lock()
AllocCall ==
  /\ resp = NoResp
  /\ InFlightAllocs < NumAllocators
  /\ waiting' = waiting (+) SetToBag({clock})
  /\ UNCHANGED <<clock, db, rowids, holder, claims, resp, hist, pk, auxVars>>

\* db.Lock() returns
AllocLock ==
  /\ resp = NoResp
  /\ holder.pc = "none"
  /\ \E now \in BagToSet(waiting) :
       /\ waiting' = waiting (-) SetToBag({now})
       /\ holder' = [NoHolder EXCEPT !.pc = "load", !.now = now]
  /\ UNCHANGED <<clock, db, rowids, claims, resp, hist, pk, auxVars>>

\* one more failed try of the allocation loop: retry, or give up and unlock
AllocRetry ==
  IF holder.tries + 1 >= MaxTries
  THEN /\ holder' = NoHolder
       /\ resp' = [NoResp EXCEPT !.kind = "allocate", !.done = TRUE, !.st = "exhausted"]
  ELSE /\ holder' = [holder EXCEPT !.pc = "load", !.tries = holder.tries + 1, !.code = 0]
       /\ resp' = NoResp

\* AllocateNameplate: sample a code and Load it; with maxRows rows inserted
\* the run goes no further than a Load that finds the code taken
AllocLoad(maxRows) ==
  /\ resp = NoResp
  /\ holder.pc = "load"
  /\ \E code \in Codes :
       IF code \in DOMAIN db /\ ~Expired(db[code], holder.now) /\ db[code].Consumed = 0
       THEN AllocRetry
       ELSE /\ rowids < maxRows
            /\ holder' = [holder EXCEPT !.pc = "insert", !.code = code]
            /\ resp' = NoResp
  /\ UNCHANGED <<clock, db, rowids, waiting, claims, hist, pk, auxVars>>

\* AllocateNameplate: InsertNew; a primary-key conflict is one more failed try
AllocInsert ==
  /\ resp = NoResp
  /\ holder.pc = "insert"
  /\ LET code == holder.code
         row == NewRow(TTL, holder.now, AllocIP, rowids + 1)
     IN  IF code \in DOMAIN db
         THEN /\ AllocRetry
              /\ UNCHANGED <<db, rowids, hist>>
         ELSE /\ db' = db @@ (code :> row)
              /\ rowids' = rowids + 1
              /\ hist' = hist @@ ((rowids + 1) :>
                           [code |-> code, CreatedAt |-> row.CreatedAt,
                            TTLSeconds |-> row.TTLSeconds, consumed |-> FALSE,
                            failIncs |-> 0])
              /\ holder' = NoHolder
              /\ resp' = [NoResp EXCEPT !.kind = "allocate", !.done = TRUE, !.st = "ok", !.code = code,
                                        !.now = holder.now,
                                        !.exp = AllocExpiresAt(holder.now, TTL),
                                        !.hasPost = TRUE, !.post = row]
  /\ UNCHANGED <<clock, waiting, claims, pk, auxVars>>

\* claims in progress that will run IncrFail on nameplate code
PendingIncr(code) ==
  BagCardinality([c \in {x \in BagToSet(claims) : x.code = code /\ x.op = "incr"}
                    |-> claims[c]])

\* what Claim keeps of the loaded row on each path: the fields it or
\* HandleClaim read after the Load
Kept(r, op) ==
  IF op = "delete" THEN NilRow
  ELSE [r EXCEPT !.FailCount = 0, !.LastIP = AllocIP]

\* HandleClaim reads time.Now() and calls Claim, which Loads the row and
\* returns at once when it has no statement to issue
ClaimLoadOf(maxClaimers, sides) ==
  /\ resp = NoResp
  /\ \E code \in Codes, side \in sides :
       LET found == code \in DOMAIN db
           r == RowOf(db, code)
           bit == SideBit(side)
           op == ClaimBranch(found, r, bit, clock)
           c == [code |-> code, bit |-> bit, r |-> Kept(r, op), op |-> op,
                 newMask |-> IF op = "update" THEN MaskOr(r.ClaimedMask, bit) ELSE 0]
           base == [NoResp EXCEPT !.kind = "claim", !.st = "failed", !.now = clock,
                                  !.code = code, !.bit = bit, !.found = found,
                                  !.r = r, !.op = op, !.hadPre = found, !.pre = r,
                                  !.hasPost = found, !.post = r]
       IN  CASE op = "missing" ->
                  /\ resp' = [base EXCEPT !.done = TRUE, !.hasRow = FALSE,
                                          !.exp = ResponseExp(FALSE, r, clock)]
                  /\ claims' = claims
             [] op = "consumed" ->
                  /\ resp' = [base EXCEPT !.done = TRUE, !.hasRow = TRUE,
                                          !.exp = ResponseExp(TRUE, r, clock)]
                  /\ claims' = claims
             [] OTHER ->
                  /\ BagCardinality(claims) < maxClaimers
                  /\ op = "incr" => r.FailCount + PendingIncr(code) < MaxFailCount
                  /\ resp' = [base EXCEPT !.st = "", !.newMask = c.newMask]
                  /\ claims' = claims (+) SetToBag({c})
  /\ UNCHANGED <<clock, db, rowids, waiting, holder, hist, pk, auxVars>>

\* a /v1/claim request of any client of the control API
ClaimLoad(maxClaimers) == ClaimLoadOf(maxClaimers, SideInputs)

\* Claim issues its statement (Delete, IncrFail or the UPDATE of the mask) and
\* returns; HandleClaim builds the response
ClaimExec ==
  /\ resp = NoResp
  /\ \E c \in BagToSet(claims) :
       LET code == c.code
           base == [NoResp EXCEPT !.kind = "claim", !.done = TRUE, !.st = "failed",
                                  !.now = clock, !.code = code, !.bit = c.bit, !.found = TRUE,
                                  !.r = c.r, !.op = c.op, !.newMask = c.newMask,
                                  !.hadPre = code \in DOMAIN db, !.pre = RowOf(db, code),
                                  !.hasPost = code \in DOMAIN db', !.post = RowOf(db', code)]
       IN  /\ claims' = claims (-) SetToBag({c})
           /\ CASE c.op = "delete" ->
                     /\ db' = Without(db, code)
                     /\ resp' = [base EXCEPT !.hasRow = FALSE,
                                             !.exp = ResponseExp(FALSE, c.r, clock)]
                [] c.op = "incr" ->
                     /\ db' = IF code \in DOMAIN db
                              THEN [db EXCEPT ![code].FailCount = db[code].FailCount + 1]
                              ELSE db
                     /\ resp' = [base EXCEPT !.hasRow = TRUE,
                                             !.exp = ResponseExp(TRUE, c.r, clock)]
                [] c.op = "update" ->
                     /\ db' = IF code \in DOMAIN db
                              THEN [db EXCEPT ![code].ClaimedMask = c.newMask,
                                              ![code].LastIP = ClaimIP]
                              ELSE db
                     /\ resp' = [base EXCEPT !.st = ClaimStatus(c.newMask),
                                             !.hasRow = TRUE,
                                             !.exp = ResponseExp(TRUE, c.r, clock)]
  /\ UNCHANGED <<clock, rowids, waiting, holder, hist, pk, auxVars>>

\* HandleConsume -> Consume: one UPDATE; the response is {ok: true}
Consume ==
  /\ resp = NoResp
  /\ \E code \in Codes :
       /\ db' = IF code \in DOMAIN db
                THEN [db EXCEPT ![code] = ConsumeRow(db[code])] ELSE db
       /\ resp' = [NoResp EXCEPT !.kind = "consume", !.done = TRUE, !.st = "ok", !.code = code,
                                 !.hadPre = code \in DOMAIN db, !.pre = RowOf(db, code),
                                 !.hasPost = code \in DOMAIN db', !.post = RowOf(db', code)]
  /\ hist' = Recorded(db', FALSE)
  /\ UNCHANGED <<clock, rowids, waiting, holder, claims, pk, auxVars>>

\* HandleFail -> FailAndConsume: one UPDATE; the response is {ok: true}
FailAndConsume ==
  /\ resp = NoResp
  /\ \E code \in Codes :
       /\ db' = IF code \in DOMAIN db
                THEN [db EXCEPT ![code] = FailAndConsumeRow(db[code])] ELSE db
       /\ resp' = [NoResp EXCEPT !.kind = "fail", !.done = TRUE, !.st = "ok", !.code = code,
                                 !.hadPre = code \in DOMAIN db, !.pre = RowOf(db, code),
                                 !.hasPost = code \in DOMAIN db', !.post = RowOf(db', code)]
  /\ hist' = Recorded(db', TRUE)
  /\ UNCHANGED <<clock, rowids, waiting, holder, claims, pk, auxVars>>

\* the sweeper: CleanupExpired(time.Now()), one DELETE
CleanupExpired ==
  /\ resp = NoResp
  /\ db' = [c \in {x \in DOMAIN db : ~CleanupMatches(db[x], clock)} |-> db[c]]
  /\ UNCHANGED <<clock, rowids, waiting, holder, claims, resp, hist, pk, auxVars>>

Next ==
  \/ Respond
  \/ Tick
  \/ AllocCall
  \/ AllocLock
  \/ AllocLoad(MaxRows)
  \/ AllocInsert
  \/ ClaimLoad(NumClaimers)
  \/ ClaimExec
  \/ Consume
  \/ FailAndConsume
  \/ CleanupExpired

Spec == Init /\ [][Next]_vars

\* the same store with one more claim in progress and one more row, and no
\* /v1/consume or /v1/fail request
NextWide ==
  \/ Respond
  \/ Tick
  \/ AllocCall
  \/ AllocLock
  \/ AllocLoad(MaxRows + 1)
  \/ AllocInsert
  \/ ClaimLoad(NumClaimers + 1)
  \/ ClaimExec
  \/ CleanupExpired

SpecWide == Init /\ [][NextWide]_vars

----------------------------------------------------------------------------
(* The PAKE handshake: RunPAKEAndConfirm of pkg/session and its copy        *)
(* runPAKEAndConfirm in cmd/wormhole, on the two ends of one chat stream.   *)
(* The stream delivers the frames of each direction in order; an endpoint   *)
(* whose run fails closes the stream, and the peer's next read on an empty  *)
(* stream then fails.  A run is one step from each blocking read to the     *)
(* next.                                                                    *)

\* the arguments of the two runs: each endpoint holds a code and a nameplate,
\* and the peer IDs are those of the connection
InitPake ==
  /\ clock = 0
  /\ db = << >>
  /\ rowids = 0
  /\ waiting = EmptyBag
  /\ holder = NoHolder
  /\ claims = EmptyBag
  /\ resp = NoResp
  /\ hist = << >>
  /\ ss = SessIdle
  /\ xf = XferIdle
  /\ lim = LimIdle
  /\ fc = FrameIdle
  /\ ch = ChatIdle
  /\ hs = HostIdle
  /\ \E passA, passB \in 1 .. NumPass, plateA, plateB \in 1 .. NumPlates, idIni \in PeerIDs :
       LET idRsp == CHOOSE i \in PeerIDs : i # idIni
       IN  pk = [PakeIdle EXCEPT
                   !.ini = [NoEndpoint EXCEPT !.pc = "start", !.pass = passA,
                                              !.nameplate = plateA,
                                              !.local = idIni, !.remote = idRsp],
                   !.rsp = [NoEndpoint EXCEPT !.pc = "readMsg", !.pass = passB,
                                              !.nameplate = plateB,
                                              !.local = idRsp, !.remote = idIni]]

\* the PAKEState of an endpoint
StateOf(e, roleA) == NewPAKEState(roleA, e.pass, e.nameplate, ProtoChat, e.local, e.remote)

\* ReadFrame returns: a frame is there, or the peer has closed the stream
CanRead(inbox, peer) == Len(inbox) > 0 \/ peer.closed

\* ReadFrame returned an error
ReadErr(inbox) == Len(inbox) = 0

\* the run returns an error and the caller closes the stream
Failed(e, err) == [e EXCEPT !.pc = "failed", !.err = err, !.closed = TRUE]

\* a frame written: by whom and of which type
Sent(by, typ) == [by |-> by, typ |-> typ]

\* initiator: Start, WriteFrame(PakeMsg, my)
IniStart ==
  /\ pk.ini.pc = "start"
  /\ pk' = [pk EXCEPT !.ini.pc = "readMsg",
                      !.sent = Append(@, Sent("ini", FramePakeMsg)),
                      !.toRsp = Append(pk.toRsp,
                                       Frame(FramePakeMsg, Start(StateOf(pk.ini, TRUE)), NoTag))]
  /\ UNCHANGED <<storeVars, auxVars>>

\* initiator: ReadFrame the peer's message, Finish, WriteFrame(PakeConfirm, tagA)
IniReadMsg ==
  /\ pk.ini.pc = "readMsg"
  /\ CanRead(pk.toIni, pk.rsp)
  /\ LET st == StateOf(pk.ini, TRUE)
     IN  IF ReadErr(pk.toIni)
         THEN pk' = [pk EXCEPT !.ini = Failed(pk.ini, "pake: bad peer msg")]
         ELSE LET f == Head(pk.toIni)
              IN  IF f.typ # FramePakeMsg
                  THEN pk' = [pk EXCEPT !.ini = Failed(pk.ini, "pake: bad peer msg"),
                                        !.toIni = Tail(pk.toIni)]
                  ELSE IF FinishFails(st, f.msg)
                  THEN pk' = [pk EXCEPT !.ini = Failed(pk.ini, "pake finish"),
                                        !.toIni = Tail(pk.toIni)]
                  ELSE LET K == Finish(st, f.msg)
                       IN  pk' = [pk EXCEPT
                                    !.ini.pc = "readConfirm", !.ini.hasK = TRUE, !.ini.K = K,
                                    !.sent = Append(@, Sent("ini", FramePakeConfirm)),
                                    !.toIni = Tail(pk.toIni),
                                    !.toRsp = Append(pk.toRsp,
                                                Frame(FramePakeConfirm, NoMsg,
                                                      ComputeConfirmTag(st, K, "A")))]
  /\ UNCHANGED <<storeVars, auxVars>>

\* initiator: ReadFrame tagB and verify it; PakeAbort on a mismatch, else return K
IniReadConfirm ==
  /\ pk.ini.pc = "readConfirm"
  /\ CanRead(pk.toIni, pk.rsp)
  /\ LET st == StateOf(pk.ini, TRUE)
     IN  IF ReadErr(pk.toIni)
         THEN pk' = [pk EXCEPT !.ini = Failed(pk.ini, "pake: no cB")]
         ELSE LET f == Head(pk.toIni)
              IN  IF f.typ # FramePakeConfirm
                  THEN pk' = [pk EXCEPT !.ini = Failed(pk.ini, "pake: no cB"),
                                        !.toIni = Tail(pk.toIni)]
                  ELSE IF ~VerifyConfirmTag(st, pk.ini.K, "B", f.tag)
                  THEN pk' = [pk EXCEPT !.ini = [Failed(pk.ini, "pake: key-confirm failed")
                                                   EXCEPT !.sentAbort = TRUE],
                                        !.toIni = Tail(pk.toIni),
                                        !.sent = Append(@, Sent("ini", FramePakeAbort)),
                                        !.toRsp = Append(pk.toRsp,
                                                         Frame(FramePakeAbort, NoMsg, NoTag))]
                  ELSE pk' = [pk EXCEPT !.ini.pc = "done",
                                        !.ini.verified =
                                           (f.tag = ComputeConfirmTag(st, pk.ini.K, "B")),
                                        !.toIni = Tail(pk.toIni)]
  /\ UNCHANGED <<storeVars, auxVars>>

\* responder: ReadFrame the peer's message, Finish, WriteFrame(PakeMsg, my)
RspReadMsg ==
  /\ pk.rsp.pc = "readMsg"
  /\ CanRead(pk.toRsp, pk.ini)
  /\ LET st == StateOf(pk.rsp, FALSE)
     IN  IF ReadErr(pk.toRsp)
         THEN pk' = [pk EXCEPT !.rsp = Failed(pk.rsp, "pake: bad peer msg")]
         ELSE LET f == Head(pk.toRsp)
              IN  IF f.typ # FramePakeMsg
                  THEN pk' = [pk EXCEPT !.rsp = Failed(pk.rsp, "pake: bad peer msg"),
                                        !.toRsp = Tail(pk.toRsp)]
                  ELSE IF FinishFails(st, f.msg)
                  THEN pk' = [pk EXCEPT !.rsp = Failed(pk.rsp, "pake finish"),
                                        !.toRsp = Tail(pk.toRsp)]
                  ELSE pk' = [pk EXCEPT
                                !.rsp.pc = "readConfirm", !.rsp.hasK = TRUE,
                                !.sent = Append(@, Sent("rsp", FramePakeMsg)),
                                !.rsp.K = Finish(st, f.msg),
                                !.toRsp = Tail(pk.toRsp),
                                !.toIni = Append(pk.toIni,
                                                 Frame(FramePakeMsg, Start(st), NoTag))]
  /\ UNCHANGED <<storeVars, auxVars>>

\* responder: ReadFrame tagA and verify it; PakeAbort on a mismatch, else
\* WriteFrame(PakeConfirm, tagB) and return K
RspReadConfirm ==
  /\ pk.rsp.pc = "readConfirm"
  /\ CanRead(pk.toRsp, pk.ini)
  /\ LET st == StateOf(pk.rsp, FALSE)
     IN  IF ReadErr(pk.toRsp)
         THEN pk' = [pk EXCEPT !.rsp = Failed(pk.rsp, "pake: no cA")]
         ELSE LET f == Head(pk.toRsp)
              IN  IF f.typ # FramePakeConfirm
                  THEN pk' = [pk EXCEPT !.rsp = Failed(pk.rsp, "pake: no cA"),
                                        !.toRsp = Tail(pk.toRsp)]
                  ELSE IF ~VerifyConfirmTag(st, pk.rsp.K, "A", f.tag)
                  THEN pk' = [pk EXCEPT !.rsp = [Failed(pk.rsp, "pake: key-confirm failed")
                                                   EXCEPT !.sentAbort = TRUE],
                                        !.toRsp = Tail(pk.toRsp),
                                        !.sent = Append(@, Sent("rsp", FramePakeAbort)),
                                        !.toIni = Append(pk.toIni,
                                                         Frame(FramePakeAbort, NoMsg, NoTag))]
                  ELSE pk' = [pk EXCEPT !.rsp.pc = "done",
                                        !.sent = Append(@, Sent("rsp", FramePakeConfirm)),
                                        !.rsp.verified =
                                           (f.tag = ComputeConfirmTag(st, pk.rsp.K, "A")),
                                        !.toRsp = Tail(pk.toRsp),
                                        !.toIni = Append(pk.toIni,
                                                    Frame(FramePakeConfirm, NoMsg,
                                                          ComputeConfirmTag(st, pk.rsp.K, "B")))]
  /\ UNCHANGED <<storeVars, auxVars>>

NextPake ==
  \/ IniStart
  \/ IniReadMsg
  \/ IniReadConfirm
  \/ RspReadMsg
  \/ RspReadConfirm

SpecPake == InitPake /\ [][NextPake]_vars

\* in place of the initiator, a peer of another making: it writes a PakeMsg
\* frame that carries the responder's own message back, and closes
PeerForge ==
  /\ pk.ini.pc = "start"
  /\ pk' = [pk EXCEPT !.ini = [@ EXCEPT !.pc = "forged", !.closed = TRUE],
                      !.toRsp = Append(pk.toRsp,
                                       Frame(FramePakeMsg, Start(StateOf(pk.rsp, FALSE)), NoTag))]
  /\ UNCHANGED <<storeVars, auxVars>>

NextPakeAny ==
  \/ NextPake
  \/ PeerForge

\* the handshake with any peer on the initiator's end
SpecPakeAny == InitPake /\ [][NextPakeAny]_vars

----------------------------------------------------------------------------
(* The session handshake: runAccepted of cmd/wormhole on the two ends of    *)
(* one chat stream, the host (inbound stream) and the connector (outbound   *)
(* stream).  A run is one step from each blocking call (a read of a line,   *)
(* the PAKE, the prompt) to the next.  A line is the sequence of its words. *)
(* The lines are read through the bufio.Reader of runAccepted, whose Read   *)
(* takes what the stream holds; the frames of the PAKE are read from the    *)
(* stream itself.  After its first frame the PAKE is a step that succeeds   *)
(* or fails; a write can fail; a read of a line on an empty stream fails    *)
(* (deadline passed, or the peer has closed); a read of a frame has no      *)
(* deadline and waits for the frame or for the peer to close.               *)

\* the control plane and the PAKE at rest
ControlAtRest ==
  /\ clock = 0
  /\ db = << >>
  /\ rowids = 0
  /\ waiting = EmptyBag
  /\ holder = NoHolder
  /\ claims = EmptyBag
  /\ resp = NoResp
  /\ hist = << >>
  /\ pk = PakeIdle

\* what the user does at a prompt: types "y", "YES", "n" or an empty line
\* (as ASCII codes), or lets the 30 seconds pass
PromptInputs ==
  { [timedOut |-> FALSE, line |-> <<121>>], [timedOut |-> FALSE, line |-> <<89, 69, 83>>],
    [timedOut |-> FALSE, line |-> <<110>>], [timedOut |-> FALSE, line |-> << >>],
    [timedOut |-> TRUE, line |-> << >>] }

\* the answer is y or yes in any case
SaidYes(in) == toLower(in.line) \in { <<121>>, <<121, 101, 115>> }

\* askYesNoWithReadline with a timeout that answers yes
AskYesNoTimeoutYes(in, defaultNo) == IF in.timedOut THEN TRUE ELSE SaidYes(in)

\* askYesNoWithReadline: the answer typed, or !defaultNo after the timeout
AskYesNoWithReadline(in, defaultNo) == IF in.timedOut THEN ~defaultNo ELSE SaidYes(in)

\* strings.HasPrefix(line, chatHello)
IsHello(line) == Len(line) > 0 /\ line[1] = ChatHello

\* runAccepted returns after its defer was registered: the stream is closed
\* and the deferred function posts /v1/fail unless handshakeSuccess is set
Returned(e) ==
  [e EXCEPT !.pc = "returned", !.closed = TRUE,
            !.fail = e.fail + (IF e.handshakeSuccess THEN 0 ELSE 1)]

\* runAccepted returns because newUI failed, before the defer is registered
ReturnedNoUI(e) == [e EXCEPT !.pc = "returned", !.closed = TRUE]

\* handshakeSuccess = true; postConsumeAsync(...)
Established(e) ==
  [e EXCEPT !.pc = "established", !.gotAccept = TRUE, !.handshakeSuccess = TRUE,
            !.consume = e.consume + 1]

InitSession ==
  /\ ControlAtRest
  /\ xf = XferIdle
  /\ lim = LimIdle
  /\ fc = FrameIdle
  /\ ch = ChatIdle
  /\ hs = HostIdle
  /\ \E v \in BOOLEAN :
       ss = [SessIdle EXCEPT !.verify = v, !.host.pc = "start", !.conn.pc = "start"]

\* host: newUI, then wait for the first line
HostStart ==
  /\ ss.host.pc = "start"
  /\ \E uiOk \in BOOLEAN :
       ss' = [ss EXCEPT !.host = IF uiOk THEN [@ EXCEPT !.pc = "readHello"]
                                 ELSE ReturnedNoUI(@)]
  /\ UNCHANGED <<storeVars, pk, ch, fc, xf, lim, hs>>

\* connector: newUI, then write ##HELLO <id>
ConnStart ==
  /\ ss.conn.pc = "start"
  /\ \E uiOk, flushOk \in BOOLEAN :
       ss' = IF ~uiOk THEN [ss EXCEPT !.conn = ReturnedNoUI(@)]
             ELSE IF ~flushOk THEN [ss EXCEPT !.conn = Returned(@)]
             ELSE [ss EXCEPT !.conn.pc = "pakeWrite",
                             !.toHost = Append(@, <<ChatHello, "id">>)]
  /\ UNCHANGED <<storeVars, pk, ch, fc, xf, lim, hs>>

\* connector: runPAKEAndConfirm as initiator writes its PakeMsg frame
ConnPakeWrite ==
  /\ ss.conn.pc = "pakeWrite"
  /\ \E writeOk \in BOOLEAN :
       ss' = IF writeOk
             THEN [ss EXCEPT !.conn.pc = "pake", !.toHost = Append(@, PakeFrameBytes)]
             ELSE [ss EXCEPT !.conn = Returned(@)]
  /\ UNCHANGED <<storeVars, pk, ch, fc, xf, lim, hs>>

\* host: rw.ReadString fills the buffer of the bufio.Reader with what the
\* stream holds and returns the first line, which must begin with ##HELLO
HostReadHello ==
  /\ ss.host.pc = "readHello"
  /\ ss' = IF Len(ss.toHost) > 0 /\ IsHello(Head(ss.toHost))
           THEN [ss EXCEPT !.host.pc = "pake", !.hostBuf = Tail(ss.toHost),
                           !.toHost = << >>]
           ELSE IF Len(ss.toHost) > 0
           THEN [ss EXCEPT !.host = Returned(@), !.hostBuf = Tail(ss.toHost),
                           !.toHost = << >>]
           ELSE [ss EXCEPT !.host = Returned(@)]
  /\ UNCHANGED <<storeVars, pk, ch, fc, xf, lim, hs>>

\* runPAKEAndConfirm on the host's end, the responder: readFrame(s) for the
\* peer's PakeMsg, then the rest of the exchange
HostPake ==
  /\ ss.host.pc = "pake"
  /\ Len(ss.toHost) > 0 \/ ss.conn.closed
  /\ IF Len(ss.toHost) > 0 /\ Head(ss.toHost) = PakeFrameBytes
     THEN \E ok \in BOOLEAN :
            ss' = [ss EXCEPT
                     !.toHost = Tail(@),
                     !.host = IF ok THEN [@ EXCEPT !.pc = "ask", !.pakeRead = TRUE,
                                                   !.pakeOk = TRUE]
                              ELSE Returned([@ EXCEPT !.pakeRead = TRUE])]
     ELSE ss' = [ss EXCEPT !.toHost = IF Len(@) > 0 THEN Tail(@) ELSE @,
                           !.host = Returned(@)]
  /\ UNCHANGED <<storeVars, pk, ch, fc, xf, lim, hs>>

\* runPAKEAndConfirm on the connector's end, the initiator, after its first
\* write: it returns a key only if the responder did
ConnPake ==
  /\ ss.conn.pc = "pake"
  /\ ss.host.pakeOk \/ ss.host.closed
  /\ \E ok \in BOOLEAN :
       ss' = [ss EXCEPT !.conn = IF ok /\ ss.host.pakeOk
                                  THEN [@ EXCEPT !.pc = "ask", !.pakeRead = TRUE,
                                                 !.pakeOk = TRUE]
                                  ELSE Returned(@)]
  /\ UNCHANGED <<storeVars, pk, ch, fc, xf, lim, hs>>

\* host: the prompt "Confirm peer within 30s", then ##ACCEPT or ##REJECT
HostAsk ==
  /\ ss.host.pc = "ask"
  /\ \E in \in PromptInputs, flushOk \in BOOLEAN :
       LET h == [ss.host EXCEPT !.prompted = TRUE, !.typed = in]
       IN  ss' = IF ~AskYesNoWithReadline(in, TRUE)
                 THEN [ss EXCEPT !.host = Returned([h EXCEPT !.said = Append(@, ChatReject)]),
                                 !.toConn = Append(@, <<ChatReject>>)]
                 ELSE IF ~flushOk THEN [ss EXCEPT !.host = Returned(h)]
                 ELSE [ss EXCEPT !.host = [h EXCEPT !.pc = "readAck",
                                                    !.said = Append(@, ChatAccept)],
                                 !.toConn = Append(@, <<ChatAccept>>)]
  /\ UNCHANGED <<storeVars, pk, ch, fc, xf, lim, hs>>

\* connector: the prompt "Verify peer locally within 30s", only with -verify
ConnAsk ==
  /\ ss.conn.pc = "ask"
  /\ IF ss.verify
     THEN \E in \in PromptInputs :
            LET c == [ss.conn EXCEPT !.prompted = TRUE, !.typed = in]
            IN  ss' = [ss EXCEPT !.conn = IF AskYesNoWithReadline(in, TRUE)
                                          THEN [c EXCEPT !.pc = "readAck"]
                                          ELSE Returned(c)]
     ELSE ss' = [ss EXCEPT !.conn.pc = "readAck"]
  /\ UNCHANGED <<storeVars, pk, ch, fc, xf, lim, hs>>

\* host: the peer's answer to its ##ACCEPT
HostReadAck ==
  /\ ss.host.pc = "readAck"
  /\ ss' = IF Len(ss.toHost) > 0 /\ Head(ss.toHost) = <<ChatAccept>>
           THEN [ss EXCEPT !.host = Established(@), !.toHost = Tail(@)]
           ELSE IF Len(ss.toHost) > 0
           THEN [ss EXCEPT !.host = Returned(@), !.toHost = Tail(@)]
           ELSE [ss EXCEPT !.host = Returned(@)]
  /\ UNCHANGED <<storeVars, pk, ch, fc, xf, lim, hs>>

\* connector: the peer's verdict; ##ACCEPT is answered with ##ACCEPT
ConnReadAck ==
  /\ ss.conn.pc = "readAck"
  /\ \E flushOk \in BOOLEAN :
       ss' = IF Len(ss.toConn) > 0 /\ Head(ss.toConn) = <<ChatAccept>>
             THEN IF flushOk
                  THEN [ss EXCEPT !.conn = Established([@ EXCEPT !.said = Append(@, ChatAccept)]),
                                  !.toConn = Tail(@),
                                  !.toHost = Append(@, <<ChatAccept>>)]
                  ELSE [ss EXCEPT !.conn = Returned([@ EXCEPT !.gotAccept = TRUE]),
                                  !.toConn = Tail(@)]
             ELSE IF Len(ss.toConn) > 0
             THEN [ss EXCEPT !.conn = Returned(@), !.toConn = Tail(@)]
             ELSE [ss EXCEPT !.conn = Returned(@)]
  /\ UNCHANGED <<storeVars, pk, ch, fc, xf, lim, hs>>

\* the chat ends and runAccepted returns
HostReturn ==
  /\ ss.host.pc = "established"
  /\ ss' = [ss EXCEPT !.host = Returned(@)]
  /\ UNCHANGED <<storeVars, pk, ch, fc, xf, lim, hs>>

ConnReturn ==
  /\ ss.conn.pc = "established"
  /\ ss' = [ss EXCEPT !.conn = Returned(@)]
  /\ UNCHANGED <<storeVars, pk, ch, fc, xf, lim, hs>>

NextSession ==
  \/ HostStart
  \/ ConnStart
  \/ ConnPakeWrite
  \/ HostReadHello
  \/ HostPake
  \/ ConnPake
  \/ HostAsk
  \/ ConnAsk
  \/ HostReadAck
  \/ ConnReadAck
  \/ HostReturn
  \/ ConnReturn

SpecSession == InitSession /\ [][NextSession]_vars

----------------------------------------------------------------------------
(* File transfer: sendXfer and handleIncomingXfer of cmd/wormhole on the    *)
(* two ends of one transfer stream.  The stream delivers the frames of      *)
(* each direction in order.  sendXfer is one step from each read of a reply *)
(* to the next; handleIncomingXfer is one step per frame.  The receiver     *)
(* also serves a peer that writes frames of its own making.  A source file  *)
(* can be rewritten between hashFile and an attempt.                        *)

MaxRetries == 3
BackoffMs == 300

\* the -outdir of the receiver
OutDir == <<"out">>

\* the file or directory given to /send
SendArg == <<"src", "root">>

\* the seeds derived from the session key
XferSeeds == {1, 2}

\* filepath.Clean, one segment at a time, on a relative path
CleanStep(acc, seg) ==
  IF seg = "." THEN acc
  ELSE IF seg = ".."
  THEN IF Len(acc) > 0 /\ acc[Len(acc)] # ".." THEN SubSeq(acc, 1, Len(acc) - 1)
       ELSE Append(acc, "..")
  ELSE Append(acc, seg)

RECURSIVE CleanFrom(_, _)
CleanFrom(acc, segs) ==
  IF segs = << >> THEN acc ELSE CleanFrom(CleanStep(acc, Head(segs)), Tail(segs))

\* filepath.Join(dir, name): the elements joined with a separator and cleaned,
\* so that a leading separator of name is lost
Join(dir, name) == CleanFrom(<< >>, dir \o name.segs)

\* filepath.Base and filepath.Rel(root, path) for a path under root
Base(path) == path[Len(path)]

Rel(root, path) == SubSeq(path, Len(root) + 1, Len(path))

\* path lies inside dir
Under(path, dir) == Len(path) > Len(dir) /\ SubSeq(path, 1, Len(dir)) = dir

\* strings.ToLower(strings.TrimSpace(s))
LowerTrim(s) == [s EXCEPT !.upper = FALSE, !.padded = FALSE]

\* the closure askYesNo with a timeout that accepts
AskYesNoTimeoutAccepts(in) == IF in.timedOut THEN TRUE ELSE SaidYes(in)

\* the closure askYesNo of runAccepted and the input loop that answers it
AskYesNo(in) == IF in.timedOut THEN FALSE ELSE SaidYes(in)

\* the sleep before every retry is the same
BackoffFlat(attempt) == BackoffMs

\* time.Duration(attempt) * 300 * time.Millisecond, in milliseconds
Backoff(attempt) == attempt * BackoffMs

\* the bytes sendOneAttempt reads and sends from a file of this content when
\* the header says size: chunks until size is reached or the file ends
SentBytes(content, size) ==
  LET n == ((size + ChunkSize - 1) \div ChunkSize) * ChunkSize
  IN  SubSeq(content, 1, IF n < Len(content) THEN n ELSE Len(content))

RECURSIVE Chunks(_)
Chunks(bytes) ==
  IF bytes = << >> THEN << >>
  ELSE LET n == IF ChunkSize < Len(bytes) THEN ChunkSize ELSE Len(bytes)
       IN  <<[Fr("frameChunk") EXCEPT !.data = SubSeq(bytes, 1, n)]>>
             \o Chunks(SubSeq(bytes, n + 1, Len(bytes)))

\* what a rewrite makes of a source file: the same length, another first byte
Rewritten(content) ==
  IF content = << >> THEN content ELSE <<9>> \o Tail(content)

\* the name sendXfer puts in the FileHeader
HdrName(kind, root, path) ==
  [abs |-> FALSE, segs |-> IF kind = "file" THEN <<Base(path)>> ELSE Rel(root, path)]

FileHdr(name, size, algo, hash) ==
  [Fr("frameFileHdr") EXCEPT !.name = name, !.size = size, !.algo = algo, !.hash = hash]

\* the file trees sent: one file, or a directory with a file and a nested
\* empty file, in the order of WalkDir
SourceFiles(kind, content) ==
  IF kind = "file" THEN << [path |-> SendArg, content |-> content] >>
  ELSE << [path |-> SendArg \o <<"a.txt">>, content |-> content],
          [path |-> SendArg \o <<"sub", "empty.bin">>, content |-> << >>] >>

\* the frames a peer of its own making writes
AnyFrames(seed) ==
  { FileHdr([abs |-> a, segs |-> n], 1, Str("xxh3-128-seed"), XXH3(seed, <<1>>)) :
      a \in BOOLEAN, n \in { <<"..", "x">>, <<"etc", "x">> } }
  \cup { FileHdr([abs |-> FALSE, segs |-> <<"f">>], sz, al, h) :
           sz \in {1, 2},
           al \in { Str("xxh3-128-seed"), [Str("xxh3-128-seed") EXCEPT !.upper = TRUE],
                    Str("md5") },
           h \in { NoHash, XXH3(seed, <<1>>), [XXH3(seed, <<1>>) EXCEPT !.padded = TRUE] } }
  \cup { [Fr("frameChunk") EXCEPT !.data = <<1>>], Fr("frameFileDone"), Fr("frameXferDone") }

InitXfer ==
  /\ ControlAtRest
  /\ ss = SessIdle
  /\ lim = LimIdle
  /\ fc = FrameIdle
  /\ ch = ChatIdle
  /\ hs = HostIdle
  /\ \E seed \in XferSeeds, mode \in {"sendXfer", "any"}, kind \in {"file", "dir"},
        content \in { << >>, <<1>>, <<1, 2>> } :
       /\ mode = "any" => kind = "file" /\ content = <<1>>
       /\ LET files == SourceFiles(kind, content)
          IN  xf = [XferIdle EXCEPT
                      !.seed = seed,
                      !.snd = [NoSender EXCEPT
                                 !.mode = mode,
                                 !.pc = IF mode = "any" THEN "any" ELSE "start",
                                 !.kind = kind, !.root = SendArg, !.files = files,
                                 !.log = [i \in 1 .. Len(files) |->
                                            [sent |-> 0, chunks |-> 0, nacks |-> 0, sleeps |-> << >>]],
                                 !.budget = IF mode = "any" THEN MaxFrames ELSE 0],
                      !.rcv = [NoReceiver EXCEPT !.pc = "readOffer"],
                      !.toR = IF mode = "any" THEN <<Fr("frameOffer")>> ELSE << >>]

\* readFrame: the next frame, or an error when the stream is empty and closed
NextFrame(q) == IF Len(q) > 0 THEN Head(q) ELSE Fr("EOF")

Rest(q) == IF Len(q) > 0 THEN Tail(q) ELSE q

\* sendXfer returns; the deferred xs.Close() runs
SendReturned(snd, err) == [snd EXCEPT !.pc = "returned", !.err = err, !.closed = TRUE]

\* sendXfer writes the offer
SendOffer ==
  /\ xf.snd.pc = "start"
  /\ xf' = [xf EXCEPT !.snd.pc = "readAnswer", !.toR = Append(@, Fr("frameOffer"))]
  /\ UNCHANGED <<storeVars, pk, ch, fc, ss, lim, hs>>

\* sendXfer reads the answer to the offer
SendReadAnswer ==
  /\ xf.snd.pc = "readAnswer"
  /\ Len(xf.toS) > 0 \/ xf.rcv.closed
  /\ LET f == NextFrame(xf.toS)
     IN  xf' = [xf EXCEPT
                  !.toS = Rest(@),
                  !.snd = IF f.typ = "EOF" THEN SendReturned(@, "read error")
                          ELSE IF f.typ = "frameReject" THEN SendReturned(@, "peer rejected")
                          ELSE IF f.typ # "frameAccept"
                          THEN SendReturned(@, "unexpected response")
                          ELSE [@ EXCEPT !.pc = "attempt", !.accepted = TRUE, !.idx = 1]]
  /\ UNCHANGED <<storeVars, pk, ch, fc, ss, lim, hs>>

\* a retry loop that gives the transfer up when the retries of a file are used up
AfterAttemptAborts(s1, ok) ==
  LET i == s1.idx
      last == i = Len(s1.files)
  IN  IF ok THEN [s1 EXCEPT !.attempt = 0, !.idx = IF last THEN i ELSE i + 1,
                            !.pc = IF last THEN "finish" ELSE "attempt"]
      ELSE IF s1.attempt >= MaxRetries
      THEN SendReturned(s1, "receiver reported hash mismatch")
      ELSE [s1 EXCEPT !.attempt = @ + 1, !.pc = "attempt",
                      !.log[i].sleeps = Append(@, Backoff(s1.attempt + 1))]

\* the retry loop of sendXfer after sendOneAttempt has returned, with an
\* error or without: the next file, one more attempt after a sleep, or the
\* file listed as failed and the next file
AfterAttempt(s1, ok) ==
  LET i == s1.idx
      last == i = Len(s1.files)
      next == [s1 EXCEPT !.attempt = 0, !.idx = IF last THEN i ELSE i + 1,
                         !.pc = IF last THEN "finish" ELSE "attempt"]
  IN  IF ok THEN next
      ELSE IF s1.attempt >= MaxRetries
      THEN [next EXCEPT !.failedFiles =
              Append(@, HdrName(s1.kind, s1.root, s1.files[i].path))]
      ELSE [s1 EXCEPT !.attempt = @ + 1, !.pc = "attempt",
                      !.log[i].sleeps = Append(@, Backoff(s1.attempt + 1))]

\* sendOneAttempt up to its read of the reply: FileHeader, Chunks, FileDone;
\* when r.Read fails after k chunks it returns that error before FileDone
SendAttempt ==
  /\ xf.snd.pc = "attempt"
  /\ LET file == xf.snd.files[xf.snd.idx]
         size == Len(file.content)
         hdr == FileHdr(HdrName(xf.snd.kind, xf.snd.root, file.path),
                        size, Str("xxh3-128-seed"), XXH3(xf.seed, file.content))
     IN  \E now \in {file.content, Rewritten(file.content)} :
           LET chunks == Chunks(SentBytes(now, size))
           IN  \E k \in 0 .. Len(chunks) :
                 LET s1 == [xf.snd EXCEPT !.hdrs = @ + 1,
                                          !.log[xf.snd.idx].sent = @ + 1,
                                          !.log[xf.snd.idx].chunks = @ + k]
                 IN  IF k = Len(chunks)
                     THEN xf' = [xf EXCEPT
                                   !.snd = [s1 EXCEPT !.pc = "readReply"],
                                   !.toR = IF xf.rcv.closed THEN @
                                           ELSE @ \o <<hdr>> \o chunks
                                                  \o <<Fr("frameFileDone")>>]
                     ELSE xf' = [xf EXCEPT
                                   !.snd = AfterAttempt([s1 EXCEPT !.readErrs = @ + 1], FALSE),
                                   !.toR = IF xf.rcv.closed THEN @
                                           ELSE @ \o <<hdr>> \o SubSeq(chunks, 1, k)]
  /\ UNCHANGED <<storeVars, pk, ch, fc, ss, lim, hs>>

\* sendOneAttempt reads the reply, and the retry loop of sendXfer decides
SendReadReply ==
  /\ xf.snd.pc = "readReply"
  /\ Len(xf.toS) > 0 \/ xf.rcv.closed
  /\ LET f == NextFrame(xf.toS)
         i == xf.snd.idx
         s1 == [xf.snd EXCEPT !.log[i].nacks = @ + (IF f.typ = "frameFileNack" THEN 1 ELSE 0)]
     IN  xf' = [xf EXCEPT
                  !.toS = Rest(@),
                  !.snd = AfterAttempt(s1, f.typ = "frameFileAck")]
  /\ UNCHANGED <<storeVars, pk, ch, fc, ss, lim, hs>>

\* sendXfer writes XferDone and returns
SendFinish ==
  /\ xf.snd.pc = "finish"
  /\ xf' = IF xf.rcv.closed
           THEN [xf EXCEPT !.snd = SendReturned(@, "write error")]
           ELSE [xf EXCEPT !.snd = SendReturned([@ EXCEPT !.xferDone = TRUE], ""),
                           !.toR = Append(@, Fr("frameXferDone"))]
  /\ UNCHANGED <<storeVars, pk, ch, fc, ss, lim, hs>>

\* a peer of its own making writes a frame, and closes after the last one
AnySend ==
  /\ xf.snd.pc = "any"
  /\ xf.snd.budget > 0
  /\ \E f \in AnyFrames(xf.seed) :
       xf' = [xf EXCEPT !.toR = Append(@, f),
                        !.snd.hdrs = @ + (IF f.typ = "frameFileHdr" THEN 1 ELSE 0),
                        !.snd.budget = @ - 1,
                        !.snd.closed = (xf.snd.budget = 1)]
  /\ UNCHANGED <<storeVars, pk, ch, fc, ss, lim, hs>>

\* handleIncomingXfer returns; the deferred xs.Close() runs
RecvReturned(rcv) == [rcv EXCEPT !.pc = "returned", !.closed = TRUE]

\* handleIncomingXfer reads the offer and asks the user
RecvOffer ==
  /\ xf.rcv.pc = "readOffer"
  /\ Len(xf.toR) > 0 \/ xf.snd.closed
  /\ IF NextFrame(xf.toR).typ # "frameOffer"
     THEN xf' = [xf EXCEPT !.toR = Rest(@), !.rcv = RecvReturned(@)]
     ELSE \E in \in PromptInputs :
            LET r == [xf.rcv EXCEPT !.prompted = TRUE, !.typed = in]
            IN  xf' = IF ~AskYesNo(in)
                      THEN [xf EXCEPT !.toR = Rest(@),
                                      !.rcv = RecvReturned([r EXCEPT !.sentReject = TRUE]),
                                      !.toS = Append(@, Fr("frameReject"))]
                      ELSE [xf EXCEPT !.toR = Rest(@),
                                      !.rcv = [r EXCEPT !.pc = "loop"],
                                      !.toS = Append(@, Fr("frameAccept"))]
  /\ UNCHANGED <<storeVars, pk, ch, fc, ss, lim, hs>>

\* the file is made by the first write to it
CreatedByWrite(fs, path) == fs

\* os.Create: the file exists and is empty
Created(fs, path) == [q \in DOMAIN fs \cup {path} |-> IF q = path THEN << >> ELSE fs[q]]

\* fw.Write
Written(fs, path, data) ==
  [q \in DOMAIN fs \cup {path} |->
     IF q = path THEN (IF path \in DOMAIN fs THEN fs[path] ELSE << >>) \o data ELSE fs[q]]

\* os.Remove
Removed(fs, path) == [q \in DOMAIN fs \ {path} |-> fs[q]]

\* the check of handleIncomingXfer at FileDone
HashOk(algo, expectHash, got) ==
  ~(algo # Str("xxh3-128-seed") \/ (expectHash # NoHash /\ got # expectHash))

\* handleIncomingXfer handles one frame of its loop
RecvFrame ==
  /\ xf.rcv.pc = "loop"
  /\ Len(xf.toR) > 0 \/ xf.snd.closed
  /\ LET f == NextFrame(xf.toR)
         r == xf.rcv
         dst == Join(OutDir, f.name)
         got == XXH3(xf.seed, r.hasher)
     IN  IF f.typ = "frameFileHdr"
         THEN \E createOk \in BOOLEAN :
                xf' = IF createOk
                      THEN [xf EXCEPT
                              !.toR = Rest(@),
                              !.fs = Created(@, dst),
                              !.touched = @ \cup {dst},
                              !.rcv = [r EXCEPT !.fw = TRUE, !.dstPath = dst,
                                                !.expectHash = LowerTrim(f.hash),
                                                !.algo = LowerTrim(f.algo),
                                                !.hasher = << >>, !.hdrSize = f.size]]
                      ELSE [xf EXCEPT
                              !.toR = Rest(@),
                              !.toS = Append(@, Fr("frameError")),
                              !.rcv = RecvReturned([r EXCEPT !.sentError = TRUE])]
         ELSE IF f.typ = "frameChunk"
         THEN xf' = IF r.fw
                    THEN [xf EXCEPT !.toR = Rest(@),
                                    !.fs = Written(@, r.dstPath, f.data),
                                    !.rcv.hasher = @ \o f.data]
                    ELSE [xf EXCEPT !.toR = Rest(@)]
         ELSE IF f.typ = "frameFileDone"
         THEN xf' = IF ~r.fw THEN [xf EXCEPT !.toR = Rest(@)]
                    ELSE IF HashOk(r.algo, r.expectHash, got)
                    THEN [xf EXCEPT
                            !.toR = Rest(@),
                            !.toS = Append(@, Fr("frameFileAck")),
                            !.rcv = [r EXCEPT !.fw = FALSE,
                                              !.ackLog = Append(@, r.dstPath),
                                              !.acks = @ \cup {[path |-> r.dstPath,
                                                                size |-> r.hdrSize,
                                                                hash |-> r.expectHash,
                                                                bytes |-> r.hasher]}]]
                    ELSE [xf EXCEPT
                            !.toR = Rest(@),
                            !.toS = Append(@, Fr("frameFileNack")),
                            !.fs = Removed(@, r.dstPath),
                            !.touched = @ \cup {r.dstPath},
                            !.rcv.fw = FALSE]
         ELSE xf' = [xf EXCEPT !.toR = Rest(@), !.rcv = RecvReturned(@)]
  /\ UNCHANGED <<storeVars, pk, ch, fc, ss, lim, hs>>

NextXfer ==
  \/ SendOffer
  \/ SendReadAnswer
  \/ SendAttempt
  \/ SendReadReply
  \/ SendFinish
  \/ AnySend
  \/ RecvOffer
  \/ RecvFrame

SpecXfer == InitXfer /\ [][NextXfer]_vars

----------------------------------------------------------------------------
(* The rate limiter: IPLimiter of pkg/server behind WithRateLimit.  A       *)
(* request samples time.Now(), then Allow runs under the limiter's mutex;   *)
(* an admitted request runs its endpoint handler, which calls RecordFail    *)
(* when it answers 4xx.                                                     *)

\* pruneLocked on one list: the timestamps still in the window
Prune(arr, now, window) == SelectSeq(arr, LAMBDA t : now - t <= window)

\* the wait Allow suggests: until the oldest leaves the window, one second at least
Wait(window, now, oldest) ==
  IF window - (now - oldest) < TicksPerSec THEN TicksPerSec ELSE window - (now - oldest)

\* int(wait.Seconds()), the Retry-After header
RetryAfter(wait) == wait \div TicksPerSec

\* IPLimiter.Allow(ip, now): the lists after it, the verdict and the wait
Allow(l, ip, now) ==
  LET reqs == [a \in LimIPs |-> Prune(l.reqs[a], now, ReqWindow)]
      fails == [a \in LimIPs |-> Prune(l.fails[a], now, FailWindow)]
      arr == Append(reqs[ip], now)
  IN  [reqs |-> [reqs EXCEPT ![ip] = arr], fails |-> fails,
       ok |-> ~(Len(arr) > MaxReqs) /\ ~(Len(fails[ip]) > MaxFails),
       wait |-> IF Len(arr) > MaxReqs THEN Wait(ReqWindow, now, arr[1])
                ELSE IF Len(fails[ip]) > MaxFails THEN Wait(FailWindow, now, fails[ip][1])
                ELSE 0]

InitLimiter ==
  /\ ControlAtRest
  /\ ss = SessIdle
  /\ xf = XferIdle
  /\ hs = HostIdle
  /\ lim = LimIdle
  /\ fc = FrameIdle
  /\ ch = ChatIdle

\* a request arrives: WithRateLimit evaluates ClientIP(r) and time.Now()
ReqArrive ==
  /\ lim.made < MaxCalls
  /\ \E ip \in LimIPs :
       lim' = [lim EXCEPT !.made = @ + 1,
                          !.calls = @ (+) SetToBag({[ip |-> ip, now |-> clock]})]
  /\ UNCHANGED <<storeVars, pk, ch, fc, ss, xf, hs>>

\* Allow under the mutex, and the answer of WithRateLimit: 429 with
\* Retry-After, or the endpoint handler
ReqAllow ==
  /\ \E c \in BagToSet(lim.calls) :
       LET a == Allow(lim, c.ip, c.now)
       IN  lim' = [lim EXCEPT
                     !.reqs = a.reqs,
                     !.fails = a.fails,
                     !.calls = @ (-) SetToBag({c}),
                     !.running = IF a.ok THEN @ (+) SetToBag({c.ip}) ELSE @,
                     !.log = Append(@, [ip |-> c.ip, now |-> c.now,
                                        before |-> lim.reqs[c.ip],
                                        nfails |-> Len(a.fails[c.ip]),
                                        status |-> IF a.ok THEN 200 ELSE 429,
                                        retryAfter |-> RetryAfter(a.wait),
                                        handler |-> a.ok, retry |-> FALSE])]
  /\ UNCHANGED <<storeVars, pk, ch, fc, ss, xf, hs>>

\* the endpoint handler ends; after a 4xx outcome it calls RecordFail
HandlerDone ==
  /\ \E ip \in BagToSet(lim.running), failed \in BOOLEAN :
       lim' = [lim EXCEPT
                 !.running = @ (-) SetToBag({ip}),
                 !.reqs = IF failed THEN [a \in LimIPs |-> Prune(@[a], clock, ReqWindow)]
                          ELSE @,
                 !.fails = IF failed
                           THEN [a \in LimIPs |->
                                   IF a = ip THEN Append(Prune(@[a], clock, FailWindow), clock)
                                   ELSE Prune(@[a], clock, FailWindow)]
                           ELSE @]
  /\ UNCHANGED <<storeVars, pk, ch, fc, ss, xf, hs>>

\* the request window has rejected the request of a log entry
RejectedByReqWindow(e) ==
  e.status = 429 /\ Len(Prune(e.before, e.now, ReqWindow)) + 1 > MaxReqs

\* the client whose request was just rejected by the request window sends its
\* next request when the seconds of Retry-After have passed, and nothing in
\* between; WithRateLimit samples time.Now() and calls Allow
Retry ==
  /\ lim.log # << >> /\ lim.calls = EmptyBag
  /\ LET e == lim.log[Len(lim.log)]
         a == Allow(lim, e.ip, clock)
     IN  /\ ~e.retry /\ RejectedByReqWindow(e)
         /\ \A j \in DOMAIN e.before : e.before[j] <= e.now
         /\ clock = e.now + e.retryAfter * TicksPerSec
         /\ lim' = [lim EXCEPT
                       !.reqs = a.reqs,
                       !.fails = a.fails,
                       !.running = IF a.ok THEN @ (+) SetToBag({e.ip}) ELSE @,
                       !.log = Append(@, [ip |-> e.ip, now |-> clock,
                                          before |-> lim.reqs[e.ip],
                                          nfails |-> Len(a.fails[e.ip]),
                                          status |-> IF a.ok THEN 200 ELSE 429,
                                          retryAfter |-> RetryAfter(a.wait),
                                          handler |-> a.ok, retry |-> TRUE])]
  /\ UNCHANGED <<storeVars, pk, ch, fc, ss, xf, hs>>

NextRetry ==
  \/ Tick
  \/ ReqArrive
  \/ ReqAllow
  \/ HandlerDone
  \/ Retry

SpecRetry == InitLimiter /\ [][NextRetry]_vars

NextLimiter ==
  \/ Tick
  \/ ReqArrive
  \/ ReqAllow
  \/ HandlerDone

SpecLimiter == InitLimiter /\ [][NextLimiter]_vars

----------------------------------------------------------------------------
(* The host loop of main (cmd/wormhole): for each allocated code it         *)
(* installs a stream handler with its own sync.Once and inbound channel and *)
(* waits for a stream, for the expiry of the code, or for the interrupt.    *)
(* The host's multiplexer calls the installed handler for an arriving chat  *)
(* stream, each call in its own goroutine, and resets a stream that finds   *)
(* no handler.                                                              *)

InitHost ==
  /\ ControlAtRest
  /\ ss = SessIdle
  /\ xf = XferIdle
  /\ lim = LimIdle
  /\ fc = FrameIdle
  /\ ch = ChatIdle
  /\ hs = [HostIdle EXCEPT !.pc = "install"]

\* a code is allocated and registered; SetStreamHandler with a new acceptOnce
HostInstall ==
  /\ hs.pc = "install"
  /\ hs.code < MaxCodes
  /\ hs' = [hs EXCEPT !.code = @ + 1, !.handler = hs.code + 1, !.pc = "select"]
  /\ UNCHANGED <<storeVars, pk, ch, fc, ss, xf, lim>>

\* a chat stream arrives: the multiplexer looks the handler up and starts a
\* call of it, or resets the stream
StreamArrive ==
  /\ hs.pc # "quit"
  /\ \E i \in 1 .. NumStreams :
       /\ hs.streams[i].st = "new"
       /\ LET forCode == IF hs.pc \in {"select", "session"} THEN hs.code ELSE 0
          IN  hs' = IF hs.handler = 0
                    THEN [hs EXCEPT !.streams[i] = [st |-> "reset", closure |-> 0,
                                                    forCode |-> forCode],
                                    !.order = Append(@, i)]
                    ELSE [hs EXCEPT !.streams[i] = [st |-> "dispatched",
                                                    closure |-> hs.handler,
                                                    forCode |-> forCode]]
  /\ UNCHANGED <<storeVars, pk, ch, fc, ss, xf, lim>>

\* the handler runs: acceptOnce.Do removes the handler of the chat protocol
\* and sends the stream to its inbound channel; a later call resets its stream
HandlerRun ==
  /\ hs.pc # "quit"
  /\ \E i \in 1 .. NumStreams :
       /\ hs.streams[i].st = "dispatched"
       /\ LET e == hs.streams[i].closure
          IN  hs' = IF ~hs.once[e]
                    THEN [hs EXCEPT !.once[e] = TRUE, !.handler = 0,
                                    !.inbound[e] = i,
                                    !.streams[i].st = "accepted",
                                    !.order = Append(@, i)]
                    ELSE [hs EXCEPT !.streams[i].st = "reset", !.order = Append(@, i)]
  /\ UNCHANGED <<storeVars, pk, ch, fc, ss, xf, lim>>

\* select: a stream is in the inbound channel of this code; runAccepted
HostReceive ==
  /\ hs.pc = "select"
  /\ hs.inbound[hs.code] # 0
  /\ hs' = [hs EXCEPT !.pc = "session", !.handed = hs.inbound[hs.code],
                      !.inbound[hs.code] = 0]
  /\ UNCHANGED <<storeVars, pk, ch, fc, ss, xf, lim>>

\* select: the code expired; RemoveStreamHandler, and on to the next code
HostExpire ==
  /\ hs.pc = "select"
  /\ hs' = [hs EXCEPT !.pc = "install", !.handler = 0]
  /\ UNCHANGED <<storeVars, pk, ch, fc, ss, xf, lim>>

\* select: the interrupt; main returns and the process ends
HostQuit ==
  /\ hs.pc = "select"
  /\ hs' = [hs EXCEPT !.pc = "quit"]
  /\ UNCHANGED <<storeVars, pk, ch, fc, ss, xf, lim>>

NextHost ==
  \/ HostInstall
  \/ StreamArrive
  \/ HandlerRun
  \/ HostReceive
  \/ HostExpire
  \/ HostQuit

SpecHost == InitHost /\ [][NextHost]_vars

----------------------------------------------------------------------------
(* The frame codec: writeFrame and readFrame of cmd/wormhole (1 byte of     *)
(* type, 8 bytes of length, little-endian) and WriteFrame and ReadFrame of  *)
(* pkg/transfer (1 byte of type, 4 bytes of length, big-endian), a writer   *)
(* and a reader on one byte stream.  The peer can also be a program of      *)
(* another making, which writes the header it likes.  A read that finds the *)
(* stream short fails as io.ReadFull does, having consumed what was there.  *)
(* int is 64 bits wide.                                                     *)

\* the k low bytes of n, least significant first
RECURSIVE LE(_, _)
LE(n, k) == IF k = 0 THEN << >> ELSE <<n % 256>> \o LE(n \div 256, k - 1)

Reverse(s) == [i \in 1 .. Len(s) |-> s[Len(s) + 1 - i]]

\* binary.LittleEndian.PutUint64 and binary.BigEndian.PutUint32(uint32(n)),
\* for 0 <= n < 2^31
PutUint64(n) == LE(n, 8)
PutUint32(n) == Reverse(LE(n, 4))

\* the order of two unsigned numbers given by their bytes, least significant
\* first: 1, 0 or -1, decided from byte i down
RECURSIVE CmpLE(_, _, _)
CmpLE(a, b, i) ==
  IF i = 0 THEN 0
  ELSE IF a[i] > b[i] THEN 1
  ELSE IF a[i] < b[i] THEN 0 - 1
  ELSE CmpLE(a, b, i - 1)

\* 1 << 31 as eight bytes
Limit31LE == <<0, 0, 0, 128, 0, 0, 0, 0>>

\* the value of a number below 2^31 given by its bytes
RECURSIVE Uint(_)
Uint(le) == IF le = << >> THEN 0 ELSE Head(le) + 256 * Uint(Tail(le))

\* the first k bytes of a stream and what follows them; a short stream is
\* consumed whole
RECURSIVE Take(_, _)
Take(rs, k) ==
  IF k = 0 THEN [ok |-> TRUE, got |-> << >>, rest |-> rs]
  ELSE IF rs = << >> THEN [ok |-> FALSE, got |-> << >>, rest |-> << >>]
  ELSE LET h == Head(rs)
       IN  IF h.n <= k
             THEN LET t == Take(Tail(rs), k - h.n)
                  IN  [ok |-> t.ok, got |-> <<h>> \o t.got, rest |-> t.rest]
             ELSE [ok |-> TRUE, got |-> <<Run(k, h.b)>>,
                   rest |-> <<Run(h.n - k, h.b)>> \o Tail(rs)]

\* io.ReadFull into a buffer of the length given by its bytes, at most 2^31
ReadFull(rs, le) ==
  IF le = Limit31LE
    THEN LET a == Take(rs, MaxInt31)
             b == Take(a.rest, 1)
         IN  [ok |-> a.ok /\ b.ok, got |-> a.got \o b.got, rest |-> b.rest]
    ELSE Take(rs, Uint(le))

\* the bytes of a short stretch of a stream
RECURSIVE Expand(_)
Expand(rs) ==
  IF rs = << >> THEN << >>
  ELSE LET h == Head(rs)
       IN  IF h.n = 1 THEN <<h.b>> \o Expand(Tail(rs))
           ELSE <<h.b>> \o Expand(<<Run(h.n - 1, h.b)>> \o Tail(rs))

\* a byte string in its shortest writing: the runs of equal bytes joined
RECURSIVE Norm(_)
Norm(rs) ==
  IF Len(rs) < 2 THEN rs
  ELSE LET a == rs[1]
           b == rs[2]
       IN  IF a.b = b.b /\ a.n <= MaxInt31 - b.n
             THEN Norm(<<Run(a.n + b.n, a.b)>> \o Tail(Tail(rs)))
             ELSE <<a>> \o Norm(Tail(rs))

\* len(payload), below 2^31
RECURSIVE PayloadLen(_)
PayloadLen(p) == IF p = << >> THEN 0 ELSE Head(p).n + PayloadLen(Tail(p))

\* writeFrame of cmd/wormhole: what it writes
writeFrame(typ, payload) ==
  Bytes(<<typ>> \o PutUint64(PayloadLen(payload))) \o payload

\* WriteFrame of pkg/transfer: what it writes
WriteFrame(typ, payload) ==
  Bytes(<<typ>> \o PutUint32(PayloadLen(payload))) \o payload

\* the result of a read: the error, the frame, whether the payload buffer was
\* made, the declared length, and the stream after the header and at return
FrameResult(err, typ, payload, alloc, n, hdrRest, after) ==
  [err |-> err, typ |-> typ, payload |-> Norm(payload), alloc |-> alloc, n |-> n,
   hdrRest |-> hdrRest, after |-> after]

\* readFrame of cmd/wormhole
readFrame(r) ==
  LET h == Take(r, 9)
      hdr == Expand(h.got)
      n == SubSeq(hdr, 2, 9)
  IN  IF ~h.ok THEN FrameResult("EOF", 0, << >>, FALSE, << >>, h.rest, h.rest)
      ELSE IF CmpLE(n, Limit31LE, 8) > 0
        THEN FrameResult("frame too large", 0, << >>, FALSE, n, h.rest, h.rest)
      ELSE IF CmpLE(n, PutUint64(0), 8) > 0
        THEN LET b == ReadFull(h.rest, n)
             IN  IF b.ok THEN FrameResult("", hdr[1], b.got, TRUE, n, h.rest, b.rest)
                 ELSE FrameResult("EOF", 0, << >>, TRUE, n, h.rest, b.rest)
      ELSE FrameResult("", hdr[1], << >>, TRUE, n, h.rest, h.rest)

\* ReadFrame of pkg/transfer
ReadFrame(r) ==
  LET h == Take(r, 5)
      hdr == Expand(h.got)
      length == Reverse(SubSeq(hdr, 2, 5)) \o <<0, 0, 0, 0>>
  IN  IF ~h.ok THEN FrameResult("EOF", 0, << >>, FALSE, << >>, h.rest, h.rest)
      ELSE IF CmpLE(length, PutUint64(0), 8) = 0
        THEN FrameResult("", hdr[1], << >>, FALSE, length, h.rest, h.rest)
      ELSE IF CmpLE(length, PutUint64(Limit29), 8) > 0
        THEN FrameResult("frame too large", 0, << >>, FALSE, length, h.rest, h.rest)
      ELSE LET b == ReadFull(h.rest, length)
           IN  IF b.ok THEN FrameResult("", hdr[1], b.got, TRUE, length, h.rest, b.rest)
               ELSE FrameResult("EOF", 0, << >>, TRUE, length, h.rest, b.rest)

\* the frame types written: 0x00, 0x42, 0xFF
FrameTypes == {0, 66, 255}

\* the payloads written: none, one byte, two bytes, 2^29 bytes, 2^29 + 1
\* bytes, 2^31 - 1 bytes
FramePayloads ==
  { << >>, <<Run(1, 7)>>, <<Run(1, 7), Run(1, 9)>>, <<Run(Limit29, 7)>>,
    <<Run(Limit29 + 1, 7)>>, <<Run(MaxInt31, 7)>> }

\* the lengths a peer of another making declares: 2, 2^31 - 1, 2^31,
\* 2^31 + 1, 2^32 - 1 and (in eight bytes) 2^63
DeclaredLengths(fmt) ==
  { <<2, 0, 0, 0>>, <<255, 255, 255, 127>>, <<0, 0, 0, 128>>, <<1, 0, 0, 128>>,
    <<255, 255, 255, 255>> }
  \cup (IF fmt = "le8" THEN {<<0, 0, 0, 0, 0, 0, 0, 128>>} ELSE { })

\* the header of type typ declaring the length le (least significant first)
RawHeader(fmt, typ, le) ==
  IF fmt = "le8"
    THEN Bytes(<<typ>> \o le \o [i \in 1 .. 8 - Len(le) |-> 0])
    ELSE Bytes(<<typ>> \o Reverse(le))

InitFrame ==
  /\ ControlAtRest
  /\ ss = SessIdle
  /\ xf = XferIdle
  /\ lim = LimIdle
  /\ hs = HostIdle
  /\ \E f \in {"le8", "be4"} : fc = [FrameIdle EXCEPT !.fmt = f]
  /\ ch = ChatIdle

\* the writer writes one frame
FrameWrite ==
  /\ fc.made < MaxWrites
  /\ ~fc.closed
  /\ \E typ \in FrameTypes, p \in FramePayloads :
       fc' = [fc EXCEPT
                !.wire = @ \o (IF fc.fmt = "le8" THEN writeFrame(typ, p)
                               ELSE WriteFrame(typ, p)),
                !.sent = Append(@, [raw |-> FALSE, typ |-> typ, payload |-> p]),
                !.made = @ + 1,
                !.out = NoRead]
  /\ UNCHANGED <<storeVars, pk, ch, ss, xf, lim, hs>>

\* a peer of another making writes a header and no payload
FrameForge ==
  /\ fc.made < MaxWrites
  /\ ~fc.closed
  /\ \E typ \in FrameTypes, le \in DeclaredLengths(fc.fmt) :
       fc' = [fc EXCEPT
                !.wire = @ \o RawHeader(fc.fmt, typ, le),
                !.sent = Append(@, [raw |-> TRUE, typ |-> typ, payload |-> << >>]),
                !.made = @ + 1,
                !.out = NoRead]
  /\ UNCHANGED <<storeVars, pk, ch, ss, xf, lim, hs>>

\* the reader reads one frame; it gives the stream up on an error
FrameRead ==
  /\ ~fc.closed
  /\ fc.fmt # "none"
  /\ LET res == IF fc.fmt = "le8" THEN readFrame(fc.wire) ELSE ReadFrame(fc.wire)
         head == IF fc.synced /\ fc.sent # << >> THEN Head(fc.sent) ELSE NoFrame
         whole == fc.synced /\ fc.sent # << >> /\ ~head.raw
     IN  fc' = [fc EXCEPT
                  !.wire = res.after,
                  !.sent = IF whole /\ res.err = "" THEN Tail(@) ELSE << >>,
                  !.synced = whole /\ res.err = "",
                  !.closed = res.err # "",
                  !.out = [kind |-> "read", err |-> res.err, typ |-> res.typ,
                           payload |-> res.payload, alloc |-> res.alloc, n |-> res.n,
                           before |-> fc.wire, hdrRest |-> res.hdrRest,
                           after |-> res.after,
                           expect |-> IF whole THEN head ELSE NoFrame]]
  /\ UNCHANGED <<storeVars, pk, ch, ss, xf, lim, hs>>

NextFrameCodec ==
  \/ FrameWrite
  \/ FrameForge
  \/ FrameRead

SpecFrame == InitFrame /\ [][NextFrameCodec]_vars

----------------------------------------------------------------------------
(* The control API as the wormhole client uses it: the host posts           *)
(* /v1/allocate and waits for a peer, the connector posts /v1/claim with    *)
(* side "connect", and after the session handshake each end posts           *)
(* /v1/consume or /v1/fail.                                                 *)

\* the side of the one /v1/claim request in the client: "connect"
ClientSides == { <<99, 111, 110, 110, 101, 99, 116>> }

\* postConsumeAsync after mutual accept, which follows the connector's claim
ReportConsume ==
  /\ Consume
  /\ resp'.hadPre
  /\ resp'.pre.ClaimedMask # 0

\* postFailAsync when runAccepted returns without mutual accept
ReportFail ==
  /\ FailAndConsume
  /\ resp'.hadPre
  /\ resp'.pre.ClaimedMask # 0

NextEndToEnd ==
  \/ Respond
  \/ Tick
  \/ AllocCall
  \/ AllocLock
  \/ AllocLoad(MaxRows)
  \/ AllocInsert
  \/ ClaimLoadOf(NumClaimers, ClientSides)
  \/ ClaimExec
  \/ ReportConsume
  \/ ReportFail
  \/ CleanupExpired

SpecEndToEnd == Init /\ [][NextEndToEnd]_vars

----------------------------------------------------------------------------
(* The endpoint handlers of the control API on requests whose body is not   *)
(* a JSON document or lacks a required field.  Each handler runs behind      *)
(* WithRateLimit; HandleAllocate never reads the body and goes on to         *)
(* AllocateNameplate.                                                        *)

Endpoints == {"allocate", "claim", "consume", "fail"}

\* request bodies: not JSON, JSON without nameplate, JSON without side
BadBodies == {"bad json", "no nameplate", "no side"}

\* the fields the handler of an endpoint requires of the decoded body
Required(endpoint) ==
  CASE endpoint = "claim" -> {"nameplate", "side"}
    [] endpoint \in {"consume", "fail"} -> {"nameplate"}
    [] OTHER -> {}

\* the field a body lacks
Lacks(body) ==
  CASE body = "no nameplate" -> "nameplate"
    [] body = "no side" -> "side"
    [] OTHER -> ""

\* the bodies that do not decode or lack a field the endpoint requires
Malformed(endpoint) ==
  {b \in BadBodies : b = "bad json" \/ Lacks(b) \in Required(endpoint)}

\* IPLimiter.RecordFail(ip, now): both maps pruned, now appended to fails[ip]
RecordFail(l, ip, now) ==
  [l EXCEPT !.reqs = [a \in LimIPs |-> Prune(@[a], now, ReqWindow)],
            !.fails = [a \in LimIPs |->
                         IF a = ip THEN Append(Prune(@[a], now, FailWindow), now)
                         ELSE Prune(@[a], now, FailWindow)]]

\* whether the handler of the endpoint calls RecordFail before its 400
RecordsBadRequest(endpoint) == endpoint = "claim"

\* the handler of an admitted request is given a body of no use
HandleMalformed ==
  /\ resp = NoResp
  /\ \E ip \in BagToSet(lim.running), endpoint \in Endpoints :
       \E body \in Malformed(endpoint) :
         LET l == [lim EXCEPT !.running = @ (-) SetToBag({ip})]
             after == IF RecordsBadRequest(endpoint) THEN RecordFail(l, ip, clock) ELSE l
         IN  IF endpoint = "allocate"
             THEN /\ InFlightAllocs < NumAllocators
                  /\ waiting' = waiting (+) SetToBag({clock})
                  /\ lim' = [l EXCEPT !.http = [NoHttp EXCEPT !.endpoint = endpoint,
                                                !.body = body, !.ip = ip, !.now = clock,
                                                !.before = lim.fails[ip],
                                                !.after = lim.fails[ip]]]
             ELSE /\ waiting' = waiting
                  /\ lim' = [after EXCEPT !.http = [NoHttp EXCEPT !.endpoint = endpoint,
                                                    !.body = body, !.ip = ip, !.now = clock,
                                                    !.status = 400, !.plain = TRUE,
                                                    !.before = lim.fails[ip],
                                                    !.after = after.fails[ip]]]
  /\ UNCHANGED <<clock, db, rowids, holder, claims, resp, hist, pk, ch, fc, ss, xf, hs>>

NextHttp ==
  \/ Tick
  \/ ReqArrive
  \/ ReqAllow
  \/ HandleMalformed
  \/ AllocLock
  \/ AllocLoad(MaxRows)
  \/ AllocInsert
  \/ Respond

SpecHttp == InitLimiter /\ [][NextHttp]_vars

----------------------------------------------------------------------------
(* The chat of runAccepted (cmd/wormhole) on one end of an established chat  *)
(* stream, from the prompt that confirms the peer on: the handshake's last   *)
(* lines, then the receive loop, the input loop, the disconnect notifiee and *)
(* the handlers of incoming transfers, each in its own goroutine.  The peer, *)
(* the user and the timers are the environment.  main returns when           *)
(* runAccepted has returned, and the process exits with it.                  *)

ChatLines == {"##ACCEPT", "##BYE", "hello"}

UserLines == {"y", "hello", "/bye"}

InitChat ==
  /\ clock = 0 /\ db = << >> /\ rowids = 0
  /\ waiting = EmptyBag /\ holder = NoHolder /\ claims = EmptyBag
  /\ resp = NoResp /\ hist = << >>
  /\ pk = PakeIdle /\ ss = SessIdle /\ xf = XferIdle /\ lim = LimIdle
  /\ hs = HostIdle /\ fc = FrameIdle
  /\ ch = [ChatIdle EXCEPT !.main = "confirm"]

\* s.CloseRead() and s.CloseWrite()
CloseHalves(c) == [c EXCEPT !.sRd = TRUE, !.sWr = TRUE]

\* once.Do of a function that sends the reason on every call
OnceDoEvery(c, reason) ==
  [c EXCEPT !.once = TRUE, !.reasonCh = Append(@, reason), !.done = TRUE]

\* once.Do(func() { reasonCh <- reason; close(done) })
OnceDo(c, reason) ==
  IF c.once THEN c
  ELSE [c EXCEPT !.once = TRUE, !.reasonCh = Append(@, reason), !.done = TRUE]

\* runAccepted returns from the handshake: it has closed the stream and the
\* console, and its deferred function starts the report of the failure
ChatReturned(c) ==
  [CloseHalves(c) EXCEPT !.main = "returned", !.uiClosed = TRUE,
                         !.fail = IF c.handshakeSuccess THEN @ ELSE "pending"]

\* the interrupt signal cancels the token
ChatCancel ==
  /\ ~ch.exited /\ ~ch.ctx
  /\ ch' = [ch EXCEPT !.ctx = TRUE]
  /\ UNCHANGED <<storeVars, pk, ss, xf, lim, hs, fc>>

\* the goroutine that waits for ctx.Done()
CancelCloser ==
  /\ ~ch.exited /\ ch.ctx /\ ~ch.ctxClosed
  /\ ch' = [CloseHalves(ch) EXCEPT !.ctxClosed = TRUE]
  /\ UNCHANGED <<storeVars, pk, ss, xf, lim, hs, fc>>

\* askYesNoWithReadline returns with the user's answer or at its timeout;
\* on "y" runAccepted writes ##ACCEPT and goes on to read the peer's line
ConfirmAnswer ==
  /\ ~ch.exited /\ ch.main = "confirm"
  /\ \E a \in {"y", "n", "timeout"} :
       ch' = IF a = "y" /\ ~ch.sWr THEN [ch EXCEPT !.main = "readAck"]
             ELSE ChatReturned(ch)
  /\ UNCHANGED <<storeVars, pk, ss, xf, lim, hs, fc>>

\* readLineWithDeadline of the peer's answer, and the start of the chat
ReadAck ==
  /\ ~ch.exited /\ ch.main = "readAck"
  /\ \/ /\ ch.sRd \/ ch.peer = << >>
        /\ ch' = ChatReturned(ch)
     \/ /\ ch.peer # << >>
        /\ ch' = IF Head(ch.peer) = "##ACCEPT"
                 THEN [ch EXCEPT !.peer = Tail(@), !.handshakeSuccess = TRUE,
                                 !.main = "chat", !.recv = "scan", !.inp = "readline"]
                 ELSE ChatReturned([ch EXCEPT !.peer = Tail(@)])
  /\ UNCHANGED <<storeVars, pk, ss, xf, lim, hs, fc>>

PeerWrite ==
  /\ ~ch.exited /\ ch.conn /\ ~ch.peerClosed /\ ch.peerLines < MaxPeerLines
  /\ \E l \in ChatLines :
       ch' = [ch EXCEPT !.peer = Append(@, l), !.peerLines = @ + 1]
  /\ UNCHANGED <<storeVars, pk, ss, xf, lim, hs, fc>>

PeerClose ==
  /\ ~ch.exited /\ ~ch.peerClosed
  /\ ch' = [ch EXCEPT !.peerClosed = TRUE]
  /\ UNCHANGED <<storeVars, pk, ss, xf, lim, hs, fc>>

\* the connection drops: with it the streams, and DisconnectedF runs if
\* the notifiee is registered
Disconnected ==
  /\ ~ch.exited /\ ch.conn
  /\ LET c == [ch EXCEPT !.conn = FALSE, !.peerClosed = TRUE]
     IN  ch' = IF ch.main = "chat"
               THEN OnceDo([c EXCEPT !.uiClosed = TRUE], "peer disconnected")
               ELSE c
  /\ UNCHANGED <<storeVars, pk, ss, xf, lim, hs, fc>>

\* one turn of the receive loop: r.Scan() and the line it returns; the
\* function it hands to once.Do closes the console too
RecvScan ==
  /\ ~ch.exited /\ ch.recv = "scan"
  /\ \/ /\ ch.peer # << >>
        /\ ch' = IF Head(ch.peer) = "##BYE"
                 THEN OnceDo([ch EXCEPT !.peer = Tail(@), !.recv = "exited",
                                        !.uiClosed = @ \/ ~ch.once],
                             "peer closed the chat")
                 ELSE [ch EXCEPT !.peer = Tail(@)]
     \/ /\ ch.sRd \/ (ch.peer = << >> /\ ch.peerClosed)
        /\ ch' = OnceDo([ch EXCEPT !.recv = "exited", !.uiClosed = @ \/ ~ch.once],
                        "peer closed the stream")
  /\ UNCHANGED <<storeVars, pk, ss, xf, lim, hs, fc>>

\* what the input loop does with a line: the answer of the promptReq at the
\* head of promptCh if there is one, else a command or a chat message
Typed(line, to, id, st) == [line |-> line, to |-> to, id |-> id, st |-> st]

\* one turn of the input loop: Readline returns a line
UserLine ==
  /\ ~ch.exited /\ ch.inp = "readline" /\ ~ch.uiClosed
  /\ Len(ch.typed) < MaxLines
  /\ \E l \in UserLines :
       ch' = IF ch.promptCh # << >>
             THEN LET id == Head(ch.promptCh)
                  IN  [ch EXCEPT !.promptCh = Tail(@),
                                 !.pr[id].resp = Append(@, l = "y"),
                                 !.typed = Append(@, Typed(l, "prompt", id, ch.pr[id].st))]
             ELSE IF l = "/bye"
             THEN OnceDo([CloseHalves(ch) EXCEPT
                            !.inp = "exited", !.uiClosed = TRUE,
                            !.typed = Append(@, Typed(l, "command", 0, "none"))],
                         "you closed the chat")
             ELSE [ch EXCEPT !.typed = Append(@, Typed(l, "chat", 0, "none"))]
  /\ UNCHANGED <<storeVars, pk, ss, xf, lim, hs, fc>>

\* Readline returns ErrInterrupt
UserInterrupt ==
  /\ ~ch.exited /\ ch.inp = "readline" /\ ~ch.uiClosed
  /\ ch' = OnceDo([CloseHalves(ch) EXCEPT !.inp = "exited", !.uiClosed = TRUE],
                  "interrupted (^C)")
  /\ UNCHANGED <<storeVars, pk, ss, xf, lim, hs, fc>>

\* Readline returns an error because the console was closed
InputClosed ==
  /\ ~ch.exited /\ ch.inp = "readline" /\ ch.uiClosed
  /\ ch' = OnceDo([CloseHalves(ch) EXCEPT !.inp = "exited"], "stdin closed")
  /\ UNCHANGED <<storeVars, pk, ss, xf, lim, hs, fc>>

\* reason := <-reasonCh, and the rest of runAccepted
MainReason ==
  /\ ~ch.exited /\ ch.main = "chat" /\ ch.reasonCh # << >>
  /\ ch' = [CloseHalves(ch) EXCEPT !.main = "returned", !.uiClosed = TRUE,
                                   !.reasonCh = Tail(@),
                                   !.delivered = Append(@, Head(ch.reasonCh))]
  /\ UNCHANGED <<storeVars, pk, ss, xf, lim, hs, fc>>

\* handleIncomingXfer has read an Offer and calls askYesNo, which puts its
\* promptReq on promptCh
XferOffer(id) ==
  /\ ~ch.exited /\ ch.main = "chat" /\ ch.conn
  /\ ch.pr[id].xfer = "none" /\ Len(ch.promptCh) < PromptCap
  /\ ch' = [ch EXCEPT !.promptCh = Append(@, id),
                      !.pr[id] = [st |-> "waiting", resp |-> << >>, xfer |-> "prompt"]]
  /\ UNCHANGED <<storeVars, pk, ss, xf, lim, hs, fc>>

\* the timer of askYesNo fires: handleIncomingXfer writes Reject and returns
PromptTimeout(id) ==
  /\ ~ch.exited /\ ch.pr[id].xfer = "prompt"
  /\ ch' = [ch EXCEPT !.pr[id].st = "timedout", !.pr[id].xfer = "returned"]
  /\ UNCHANGED <<storeVars, pk, ss, xf, lim, hs, fc>>

\* askYesNo takes the answer from pr.resp
PromptAnswered(id) ==
  /\ ~ch.exited /\ ch.pr[id].xfer = "prompt" /\ ch.pr[id].resp # << >>
  /\ ch' = [ch EXCEPT !.pr[id].st = "answered", !.pr[id].resp = Tail(@),
                      !.pr[id].xfer = IF Head(ch.pr[id].resp) THEN "loop" ELSE "returned"]
  /\ UNCHANGED <<storeVars, pk, ss, xf, lim, hs, fc>>

\* the frame loop of handleIncomingXfer ends: the peer has sent XferDone or
\* closed the transfer stream, or the connection is down
XferEnd(id) ==
  /\ ~ch.exited /\ ch.pr[id].xfer = "loop"
  /\ ch' = [ch EXCEPT !.pr[id].xfer = "returned"]
  /\ UNCHANGED <<storeVars, pk, ss, xf, lim, hs, fc>>

\* the goroutine of postFailAsync has posted /v1/fail
PostFail ==
  /\ ~ch.exited /\ ch.fail = "pending"
  /\ ch' = [ch EXCEPT !.fail = "sent"]
  /\ UNCHANGED <<storeVars, pk, ss, xf, lim, hs, fc>>

\* main returns after runAccepted: the goroutines end where they are
ProcessExit ==
  /\ ~ch.exited /\ ch.main = "returned"
  /\ ch' = [ch EXCEPT !.exited = TRUE, !.fail = IF @ = "pending" THEN "lost" ELSE @]
  /\ UNCHANGED <<storeVars, pk, ss, xf, lim, hs, fc>>

NextChat ==
  \/ ChatCancel \/ CancelCloser \/ ConfirmAnswer \/ ReadAck
  \/ PeerWrite \/ PeerClose \/ Disconnected \/ RecvScan
  \/ UserLine \/ UserInterrupt \/ InputClosed \/ MainReason
  \/ \E id \in 1 .. MaxPrompts :
       XferOffer(id) \/ PromptTimeout(id) \/ PromptAnswered(id) \/ XferEnd(id)
  \/ PostFail \/ ProcessExit

SpecChat == InitChat /\ [][NextChat]_vars

----------------------------------------------------------------------------
(* Properties of the nameplate store *)

\* a /v1/claim request has just run its Load
ClaimLoaded == resp.kind = "claim" /\ (resp.done => resp.op \in {"missing", "consumed"})

\* a /v1/claim request has just returned
ClaimReturned == resp.kind = "claim" /\ resp.done

\* a request has just issued a statement that found the row and left it in
\* the table
SameRowStep == resp.hadPre /\ resp.hasPost /\ resp.pre.rowid = resp.post.rowid

\* the rows of nameplate c issued so far that are neither consumed nor past
\* their expiry
Outstanding(c) ==
  {id \in DOMAIN hist : /\ hist[id].code = c
                        /\ ~hist[id].consumed
                        /\ clock <= (hist[id].CreatedAt + hist[id].TTLSeconds) * TicksPerSec}

\* C1: once a row is consumed, a claim that returns afterwards returns failed
\* and its statement leaves the claimed_mask of the row as it was.
C1_ConsumedRowRejectsClaims ==
  (ClaimReturned /\ resp.hadPre /\ resp.pre.Consumed # 0)
    => /\ resp.st = "failed"
       /\ resp.hasPost => resp.post.ClaimedMask = resp.pre.ClaimedMask

\* C2: from its insertion to its deletion the claimed_mask of a row never
\* gets smaller and no side bit that is set is cleared, whatever the
\* interleaving of the claims.
C2_MaskNonDecreasing ==
  [][\A c \in (DOMAIN db) \cap (DOMAIN db') :
       db[c].rowid = db'[c].rowid
         => /\ db'[c].ClaimedMask >= db[c].ClaimedMask
            /\ \A b \in {1, 2} : HasBit(db[c].ClaimedMask, b) => HasBit(db'[c].ClaimedMask, b)]_vars

\* C3: once the claimed_mask of a row is 3 it stays 3 for as long as the row
\* exists, whatever the interleaving of the claims.
C3_PairedIsTerminal ==
  [][\A c \in (DOMAIN db) \cap (DOMAIN db') :
       (db[c].rowid = db'[c].rowid /\ db[c].ClaimedMask = 3) => db'[c].ClaimedMask = 3]_vars

\* C4: at any time at most one allocation of a nameplate is outstanding, that
\* is neither expired nor consumed: allocate does not hand out a nameplate
\* again while an earlier allocation of it is outstanding.
C4_OneOutstandingAllocation ==
  \A c \in Codes : Cardinality(Outstanding(c)) <= 1

\* C5: a claim on a live row for a side whose bit is clear issues the UPDATE;
\* the UPDATE, finding that row unconsumed and the side's bit clear, adds
\* exactly that bit, and the claim returns paired when the other side's bit
\* is set and waiting when it is clear.
C5_ClaimSetsItsBit ==
  /\ (ClaimLoaded /\ resp.found /\ ~(resp.now > ExpiresAt(resp.r)) /\ resp.r.Consumed = 0
        /\ resp.bit # 0 /\ ~HasBit(resp.r.ClaimedMask, resp.bit))
       => resp.op = "update"
  /\ (ClaimReturned /\ resp.op = "update" /\ resp.hadPre
        /\ resp.pre.rowid = resp.r.rowid /\ resp.pre.Consumed = 0
        /\ ~HasBit(resp.pre.ClaimedMask, resp.bit))
       => /\ resp.hasPost
          /\ resp.post.ClaimedMask = resp.pre.ClaimedMask + resp.bit
          /\ resp.st = IF HasBit(resp.pre.ClaimedMask, 3 - resp.bit)
                       THEN "paired" ELSE "waiting"

\* C6: consume and fail_and_consume always return ok and leave the row
\* consumed with nothing else changed but, on the first fail_and_consume of an
\* unconsumed row, fail_count; on a consumed row they change nothing, and over
\* all the consume and fail calls on one row fail_count is raised at most once.
C6_ConsumeIdempotent ==
  /\ resp.kind \in {"consume", "fail"}
       => /\ resp.done /\ resp.st = "ok"
          /\ resp.hasPost = resp.hadPre
          /\ resp.hadPre
               => /\ resp.post.Consumed = 1
                  /\ resp.post = [resp.pre EXCEPT !.Consumed = 1,
                                                  !.FailCount = resp.post.FailCount]
                  /\ resp.pre.Consumed # 0 => resp.post = resp.pre
  /\ \A id \in DOMAIN hist : hist[id].failIncs <= 1

\* /v1/fail has been called again on a row that an earlier /v1/fail consumed
C6_Witness ==
  /\ resp.kind = "fail" /\ resp.hadPre /\ resp.pre.Consumed = 1
  /\ resp.post = resp.pre
  /\ hist[resp.pre.rowid].failIncs = 1

\* C7: a claim takes the expired path exactly when its now is later than
\* created_at + ttl_seconds; it then deletes the row and returns failed, and a
\* claim that finds no row returns failed; at now = created_at + ttl_seconds
\* an unconsumed row is claimed.
C7_ExpiredExactlyAfterTTL ==
  /\ (ClaimLoaded /\ resp.found) => (resp.op = "delete" <=> resp.now > ExpiresAt(resp.r))
  /\ (ClaimReturned /\ resp.op = "delete") => (resp.st = "failed" /\ ~resp.hasPost)
  /\ (ClaimLoaded /\ ~resp.found) => (resp.done /\ resp.st = "failed")
  /\ (ClaimLoaded /\ resp.found /\ resp.now = ExpiresAt(resp.r) /\ resp.r.Consumed = 0
        /\ resp.bit # 0 /\ ~HasBit(resp.r.ClaimedMask, resp.bit))
       => resp.op = "update"

\* a claim has deleted the row it found expired and returned failed
C7_Witness ==
  /\ ClaimReturned /\ resp.op = "delete" /\ resp.hadPre /\ ~resp.hasPost
  /\ clock > ExpiresAt(resp.pre) /\ resp.st = "failed"

\* C8: every failed claim response carries expires_at = now, whatever the
\* cause of the failure.
C8_FailedExpiresAtIsNow ==
  (ClaimReturned /\ resp.st = "failed") => resp.exp = resp.now

\* C24: of the claims on one row at most one per side returns a status other
\* than "failed", and when a claim of each side has done so, the later one
\* returned "paired" and the stored claimed_mask is 3: a claim that returns
\* "waiting" or "paired" finds the bit of its side not set in the row, and when
\* it finds the bit of the other side set it returns "paired" and leaves 3.
C24_OneClaimPerSideThenPaired ==
  ( /\ resp.kind = "claim" /\ resp.done /\ resp.st # "failed"
    /\ resp.hadPre /\ resp.pre.rowid = resp.r.rowid ) =>
    /\ ~HasBit(resp.pre.ClaimedMask, resp.bit)
    /\ HasBit(resp.pre.ClaimedMask, 3 - resp.bit) =>
         resp.st = "paired" /\ resp.hasPost /\ resp.post.ClaimedMask = 3

\* C25: a row that a step removes from the table is expired or consumed at
\* that moment, whether the lazy delete of a claim or the sweeper removes it.
C25_OnlyDeadRowsDeleted ==
  [][\A c \in DOMAIN db \ DOMAIN db' :
       Expired(db[c], clock) \/ db[c].Consumed # 0]_vars

\* C31: a claim that returns on a live row whose bit for its side is already
\* set, or with a side that is not recognised, returns failed, adds exactly 1
\* to fail_count and leaves claimed_mask, consumed and last_ip as they were.
C31_RepeatedClaimCountsOneFailure ==
  ( /\ resp.kind = "claim" /\ resp.done
    /\ resp.hadPre /\ ~Expired(resp.pre, resp.now) /\ resp.pre.Consumed = 0
    /\ IF resp.bit = 0 THEN TRUE ELSE HasBit(resp.pre.ClaimedMask, resp.bit) ) =>
    /\ resp.st = "failed"
    /\ resp.hasPost
    /\ resp.post.FailCount = resp.pre.FailCount + 1
    /\ resp.post.ClaimedMask = resp.pre.ClaimedMask
    /\ resp.post.Consumed = resp.pre.Consumed
    /\ resp.post.LastIP = resp.pre.LastIP

\* C32: a request whose body is not JSON or lacks a required field is
\* answered by the handler of its endpoint with a plain-text 400 and with one
\* more entry, the time of the request, in the failure window of its address;
\* it is not answered with an allocation.
C32_MalformedRequestIs400AndCounted ==
  /\ lim.http.status # 0 =>
        /\ lim.http.status = 400
        /\ lim.http.plain
        /\ lim.http.after =
             Append(Prune(lim.http.before, lim.http.now, FailWindow), lim.http.now)
  /\ ~( /\ lim.http.endpoint = "allocate" /\ lim.http.status = 0
        /\ resp.kind = "allocate" /\ resp.done /\ resp.st = "ok" )

\* C33: a row that a consume report turns consumed is paired at that moment:
\* its claimed_mask is 3.
C33_ConsumedOnlyWhenPaired ==
  ( /\ resp.kind = "consume" /\ resp.hadPre /\ resp.hasPost
    /\ resp.pre.Consumed = 0 /\ resp.post.Consumed # 0 ) =>
    resp.pre.ClaimedMask = 3

----------------------------------------------------------------------------
(* Properties of the PAKE handshake *)

\* no step of the handshake can be taken
PakeQuiescent ==
  /\ pk.ini.pc # "start"
  /\ pk.ini.pc \in {"readMsg", "readConfirm"} => ~CanRead(pk.toIni, pk.rsp)
  /\ pk.rsp.pc \in {"readMsg", "readConfirm"} => ~CanRead(pk.toRsp, pk.ini)

\* the two endpoints hold the same code and the same nameplate
SameCode == pk.ini.pass = pk.rsp.pass /\ pk.ini.nameplate = pk.rsp.nameplate

\* the SAS an endpoint shows and the transfer seed it derives from its key
SASOf(e) == SASFromKey(e.K, BuildTranscript(e.nameplate, ProtoChat, e.local, e.remote))
SeedOf(e) == XferSeed(e.K, e.nameplate, e.local, e.remote)

\* C9: a run returns K only after it verified the peer's confirmation tag,
\* and then the peer derived the same K; with different codes neither run
\* returns a key.
C9_KeyOnlyAfterConfirmation ==
  /\ pk.ini.pc = "done" => (pk.ini.verified /\ pk.rsp.hasK /\ pk.rsp.K = pk.ini.K)
  /\ pk.rsp.pc = "done" => (pk.rsp.verified /\ pk.ini.hasK /\ pk.ini.K = pk.rsp.K)
  /\ pk.ini.pass # pk.rsp.pass => (pk.ini.pc # "done" /\ pk.rsp.pc # "done")

\* with different codes both endpoints derived a key and both runs failed
C9_Witness ==
  /\ pk.ini.pass # pk.rsp.pass
  /\ pk.ini.hasK /\ pk.rsp.hasK /\ pk.ini.K # pk.rsp.K
  /\ pk.ini.pc = "failed" /\ pk.rsp.pc = "failed"

PakeFrameOrder ==
  <<Sent("ini", FramePakeMsg), Sent("rsp", FramePakeMsg),
    Sent("ini", FramePakeConfirm), Sent("rsp", FramePakeConfirm)>>

\* the frames written so far are the first frames of that order, followed at
\* most by the PakeAbort of the side that refused the peer's tag
PakeFramesInOrder ==
  \E k \in 0 .. 4 :
    \/ pk.sent = SubSeq(PakeFrameOrder, 1, k)
    \/ \E by \in {"ini", "rsp"} :
         pk.sent = Append(SubSeq(PakeFrameOrder, 1, k), Sent(by, FramePakeAbort))

\* C30: a run that fails in PAKEState.Finish or at the verification of the
\* peer's confirmation tag has written a PakeAbort frame, and returns no key.
C30_AbortOnFinishOrConfirmFailure ==
  \A e \in {pk.ini, pk.rsp} :
    e.err \in {"pake finish", "pake: key-confirm failed"} =>
      e.sentAbort /\ e.pc = "failed"

----------------------------------------------------------------------------
(* Properties of the session handshake *)

\* the user of this end was prompted and answered y or yes before the timeout
UserConfirmed(e) == e.prompted /\ ~e.typed.timedOut /\ SaidYes(e.typed)

\* C11 as stated: on the host and on the connector alike, the established
\* state is reached only after the local user confirmed the SAS within the
\* 30 seconds and ##ACCEPT was read from the peer.
C11_EstablishedOnlyAfterLocalConfirm ==
  \A e \in {ss.host, ss.conn} :
    e.pc = "established" => UserConfirmed(e) /\ e.gotAccept

\* C11 amended: either end is established only after it has read ##ACCEPT
\* from the peer; the host only after its user confirmed within the 30
\* seconds; the connector only after its user confirmed within the 30 seconds
\* when -verify is set (the default), and without a local prompt when it is not.
C11_EstablishedOnlyAfterRequiredConfirm ==
  /\ ss.host.pc = "established" => UserConfirmed(ss.host) /\ ss.host.gotAccept
  /\ ss.conn.pc = "established" =>
       /\ ss.conn.gotAccept
       /\ IF ss.verify THEN UserConfirmed(ss.conn) ELSE ~ss.conn.prompted

\* both ends established after both users confirmed, the connector with -verify
C11_Witness ==
  /\ ss.verify
  /\ ss.host.pc = "established" /\ UserConfirmed(ss.host) /\ ss.host.gotAccept
  /\ ss.conn.pc = "established" /\ UserConfirmed(ss.conn) /\ ss.conn.gotAccept

\* C12: each run of runAccepted issues exactly one report: /v1/consume, only
\* after ##ACCEPT was read from the peer, or /v1/fail when the handshake ends
\* before mutual accept; never both, and one of them once the run is over.
C12_ExactlyOneReport ==
  \A e \in {ss.host, ss.conn} :
    /\ e.consume + e.fail <= 1
    /\ e.consume = 1 => e.gotAccept
    /\ e.pc = "returned" => e.consume + e.fail = 1

\* C26: establishment is mutual: never has one end set handshakeSuccess and
\* reported consume while the other end returned from the same handshake
\* without success and reported fail.
C26_EstablishmentIsMutual ==
  \A p \in {<<ss.host, ss.conn>>, <<ss.conn, ss.host>>} :
    ~ ( /\ p[1].handshakeSuccess /\ p[1].consume > 0
        /\ p[2].pc = "returned" /\ ~p[2].handshakeSuccess /\ p[2].fail > 0 )

\* C27: after its prompt an end writes at most one of ##ACCEPT and ##REJECT,
\* ##ACCEPT only when its user confirmed, and an end whose user answered no
\* or let the prompt time out has written ##REJECT when it closes the stream,
\* the host and the connector alike.
C27_RejectIsSent ==
  \A e \in {ss.host, ss.conn} :
    e.prompted =>
      /\ Len(e.said) <= 1
      /\ e.said = <<ChatAccept>> => UserConfirmed(e)
      /\ e.said = <<ChatReject>> => ~UserConfirmed(e)
      /\ (e.closed /\ ~UserConfirmed(e)) => e.said = <<ChatReject>>

\* C28: the host's read of the ##HELLO line takes that line only: the
\* connector's PakeMsg frame is never in the buffer of the line reader, where
\* the frame read of the host's runPAKEAndConfirm does not find it.
C28_HelloReadLeavesPakeMsg ==
  \A i \in 1 .. Len(ss.hostBuf) : ss.hostBuf[i] # PakeFrameBytes

\* C29: neither run of the handshake waits for a frame that is never sent:
\* while the connector waits for the host's PakeMsg, the host has read the
\* connector's PakeMsg or that frame is still on the stream for it to read.
C29_NoWaitForUnsentFrame ==
  (ss.conn.pc = "pake" /\ ss.host.pc = "pake" /\ ~ss.host.closed /\ ~ss.conn.closed) =>
    (ss.host.pakeOk \/ Len(ss.toHost) > 0)

----------------------------------------------------------------------------
(* Properties of the file transfer *)

\* C13: the receiver sends FileAck for a file only if the seeded XXH3-128 of
\* the bytes it received equals the hash announced in the FileHeader and
\* their number equals the announced size, whatever FileHeader was sent.
C13_AckOnlyIfHashAndSizeMatch ==
  \A a \in xf.rcv.acks :
    a.hash = XXH3(xf.seed, a.bytes) /\ Len(a.bytes) = a.size

\* the sender moved on from file i
PastFile(i) == xf.snd.idx > i \/ xf.snd.pc \in {"finish", "returned"}

C15_NoFileOutsideOutDir == \A path \in xf.touched : Under(path, OutDir)

\* the receiver's user answered no at the accept prompt, or let it time out
Declined == xf.rcv.prompted /\ ~(~xf.rcv.typed.timedOut /\ SaidYes(xf.rcv.typed))

C20_DirDeliveredUnderBaseName ==
  ( /\ xf.snd.mode = "sendXfer" /\ xf.snd.kind = "dir"
    /\ xf.snd.pc = "returned" /\ xf.snd.err = "" /\ xf.snd.failedFiles = << >>
    /\ xf.rcv.pc = "returned" ) =>
    \A i \in 1 .. Len(xf.snd.files) :
      LET dst == OutDir \o <<Base(xf.snd.root)>> \o Rel(xf.snd.root, xf.snd.files[i].path)
      IN  dst \in DOMAIN xf.fs /\ xf.fs[dst] = xf.snd.files[i].content

SendOrder ==
  [i \in 1 .. Len(xf.snd.files) |->
     Join(OutDir, HdrName(xf.snd.kind, xf.snd.root, xf.snd.files[i].path))]

\* the FileHeaders among the frames on their way to the receiver
HdrsInFlight == {j \in DOMAIN xf.toR : xf.toR[j].typ = "frameFileHdr"}

\* the FileAcks went to files of the transfer, each once, in the sender's order
AcksInSendOrder ==
  /\ \A a \in DOMAIN xf.rcv.ackLog : \E i \in DOMAIN SendOrder : SendOrder[i] = xf.rcv.ackLog[a]
  /\ \A a, b \in DOMAIN xf.rcv.ackLog :
       a < b => \E i, j \in DOMAIN SendOrder :
                  i < j /\ SendOrder[i] = xf.rcv.ackLog[a] /\ SendOrder[j] = xf.rcv.ackLog[b]

\* C34: sendXfer writes a FileHeader only when the receiver has answered the
\* FileDone before it: at most one FileHeader is on its way to the receiver,
\* no FileDone lies before it and no answer is unread; the receiver sends
\* FileAck for each file at most once and in the sender's order.
C34_OneFileAtATimeInOrder ==
  xf.snd.mode = "sendXfer" =>
    /\ Cardinality(HdrsInFlight) <= 1
    /\ \A j \in HdrsInFlight :
         /\ xf.toS = << >>
         /\ \A i \in 1 .. (j - 1) : xf.toR[i].typ # "frameFileDone"
    /\ AcksInSendOrder

\* a side of the transfer is in readFrame and no frame has arrived
SenderWaits == xf.snd.pc \in {"readAnswer", "readReply"} /\ xf.toS = << >>

ReceiverWaits == xf.rcv.pc \in {"readOffer", "loop"} /\ xf.toR = << >>

----------------------------------------------------------------------------
(* Properties of the rate limiter *)

\* the requests of an address answered so far, in the order Allow handled them
LogOf(ip) == SelectSeq(lim.log, LAMBDA e : e.ip = ip)

\* all their timestamps lie within one request window
WithinOneWindow(es) == \A i, j \in 1 .. Len(es) : es[i].now - es[j].now <= ReqWindow

\* the request got 429 with Retry-After of a second or more, and no handler ran
Rejected(e) == e.status = 429 /\ e.retryAfter >= 1 /\ ~e.handler

\* C17: of the requests of one address whose timestamps all lie within one
\* request window, the first max_requests are admitted and every further one
\* gets 429 with Retry-After >= 1 and does not reach the handler.  (A request
\* that finds its address over the failure limit is rejected in the same way.)
C17_FirstNAdmittedRestRejected ==
  \A ip \in LimIPs :
    LET es == LogOf(ip)
    IN  WithinOneWindow(es) =>
          \A k \in 1 .. Len(es) :
            IF k <= MaxReqs /\ es[k].nfails <= MaxFails
            THEN es[k].status = 200 /\ es[k].handler
            ELSE Rejected(es[k])

\* C18: a request that finds max_requests requests in the list of its
\* address, the oldest of them exactly request_window old, is admitted (the
\* address being within its failure limit).
C18_BoundaryAdmits ==
  \A k \in 1 .. Len(lim.log) :
    LET e == lim.log[k]
    IN  ( /\ Len(e.before) = MaxReqs
          /\ \A i \in 1 .. Len(e.before) : e.before[1] <= e.before[i]
          /\ e.now - e.before[1] = ReqWindow
          /\ e.nfails <= MaxFails ) => e.status = 200

\* C38: the request a client sends when the suggested wait has passed since
\* its rejection by the request window, with nothing sent in between, is
\* admitted.
C38_RetryAfterWaitIsAdmitted ==
  \A i \in DOMAIN lim.log : lim.log[i].retry => lim.log[i].status = 200

\* a list of timestamps in non-decreasing order
TimeSorted(arr) == \A i, j \in DOMAIN arr : i < j => arr[i] <= arr[j]

\* C39: after every call of Allow and RecordFail the two lists of every
\* address are in non-decreasing time order, so that the first element of a
\* list is its oldest timestamp.
C39_ListsTimeSorted ==
  \A ip \in LimIPs :
    /\ TimeSorted(lim.reqs[ip]) /\ TimeSorted(lim.fails[ip])
    /\ \A j \in DOMAIN lim.reqs[ip] : lim.reqs[ip][1] <= lim.reqs[ip][j]

----------------------------------------------------------------------------
(* Properties of the host loop *)

\* the streams that arrived while the host was waiting on code e
StreamsFor(e) == {i \in 1 .. NumStreams : hs.streams[i].forCode = e}

\* C19: for each allocated code at most one inbound chat stream is accepted
\* and only an accepted stream is handed to the session; once the streams
\* that arrived for the code are settled, exactly one of them is accepted,
\* the first that was settled, and every other one is reset.
C19_FirstStreamAcceptedOthersReset ==
  /\ hs.handed # 0 => hs.streams[hs.handed].st = "accepted"
  /\ \A e \in 1 .. hs.code :
       LET mine == StreamsFor(e)
           acc == {i \in mine : hs.streams[i].st = "accepted"}
       IN  /\ Cardinality(acc) <= 1
           /\ (mine # {} /\ \A i \in mine : hs.streams[i].st # "dispatched") =>
                /\ Cardinality(acc) = 1
                /\ \A i \in mine \ acc : hs.streams[i].st = "reset"
                /\ \A i \in acc : \A k \in 1 .. Len(hs.order) :
                     hs.order[k] \in mine =>
                       \E j \in 1 .. k : hs.order[j] = i

----------------------------------------------------------------------------
(* Properties of the frame codec *)

\* C21: readFrame of cmd/wormhole rejects every frame whose declared length
\* is 2^31 or more, and it does so before it makes the payload buffer and
\* before it reads a byte of the payload.
C21_TooLargeRejectedBeforeAllocation ==
  (fc.fmt = "le8" /\ fc.out.kind = "read" /\ Len(fc.out.n) = 8
     /\ CmpLE(fc.out.n, Limit31LE, 8) >= 0)
    => /\ fc.out.err = "frame too large"
       /\ ~fc.out.alloc
       /\ fc.out.after = fc.out.hdrRest

\* C22: a read of a frame written with type t and payload p returns (t, p)
\* and takes exactly the bytes of the frame from the stream, in both codecs.
C22_FrameRoundTrip ==
  (fc.out.kind = "read" /\ fc.out.expect # NoFrame)
    => /\ fc.out.err = ""
       /\ fc.out.typ = fc.out.expect.typ
       /\ fc.out.payload = Norm(fc.out.expect.payload)
       /\ fc.out.before
            = (IF fc.fmt = "le8"
                 THEN writeFrame(fc.out.expect.typ, fc.out.expect.payload)
                 ELSE WriteFrame(fc.out.expect.typ, fc.out.expect.payload))
              \o fc.out.after

----------------------------------------------------------------------------
(* Properties of the chat *)

\* what ends a pending wait of the session once the token is cancelled,
\* without the user, the peer or a timer: a read of the chat stream fails
\* when the stream is closed for reading; a read of a transfer stream fails
\* when the connection is down; askYesNoWithReadline and askYesNo select on
\* the answer and on their timer only
CancelEnds(wait) ==
  CASE wait \in {"readAck", "scan"} -> ch.sRd
    [] wait = "loop" -> ~ch.conn
    [] wait \in {"confirm", "prompt"} -> FALSE
    [] OTHER -> TRUE

\* C36: once the token is cancelled and its goroutine has run, every pending
\* read, prompt and wait of the session, those of the incoming transfers
\* included, is one that ends by itself; and a session that ended without
\* mutual accept has reported fail when the process is gone.
C36_CancelAbortsEveryWait ==
  /\ (ch.ctxClosed /\ ~ch.exited) =>
       /\ CancelEnds(ch.main) /\ CancelEnds(ch.recv)
       /\ \A id \in 1 .. MaxPrompts : CancelEnds(ch.pr[id].xfer)
  /\ (ch.main = "returned" /\ ~ch.handshakeSuccess) => ch.fail # "none"
  /\ (ch.exited /\ ~ch.handshakeSuccess) => ch.fail = "sent"

\* C37: in a chat at most one reason is ever sent on reasonCh, and one is
\* sent as soon as the receive loop or the input loop has ended, whichever
\* triggers occur and in whatever order; runAccepted takes that one reason,
\* and when it has taken it both halves of the chat stream are closed and it
\* has returned.
C37_ExactlyOneReason ==
  /\ Len(ch.reasonCh) + Len(ch.delivered) <= 1
  /\ ch.once <=> (Len(ch.reasonCh) + Len(ch.delivered) = 1)
  /\ (ch.recv = "exited" \/ ch.inp = "exited") => ch.once
  /\ Len(ch.delivered) = 1 => ch.main = "returned" /\ ch.sRd /\ ch.sWr
  /\ (ch.handshakeSuccess /\ ch.main = "returned") => Len(ch.delivered) = 1

\* the peer's ##BYE, the user's interrupt and the disconnection have all
\* occurred, and runAccepted has returned with the one reason
C37_Witness ==
  /\ ch.handshakeSuccess /\ ch.recv = "exited" /\ ch.inp = "exited" /\ ~ch.conn
  /\ ch.main = "returned" /\ ch.delivered = <<"interrupted (^C)">>
  /\ ch.sRd /\ ch.sWr

\* C40: no line the user types is taken as the answer of a prompt that had
\* timed out when the line was read: a line goes to the prompt that is
\* waiting, or is handled as a command or a chat message.
C40_TimedOutPromptTakesNoInput ==
  \A i \in DOMAIN ch.typed :
    ch.typed[i].to = "prompt" => ch.typed[i].st = "waiting"

====
